---- MODULE Spec2Model ----
(***************************************************************************)
(* A model of id_tree's arena tree (src/src/tree.rs, src/src/tree/core.rs, *)
(* src/src/node/vec_node.rs).  A Tree owns a vector of optional nodes, a   *)
(* free list of vacated NodeIds and an optional root NodeId.  Every public *)
(* operation is a pure operator from a Tree value (and its arguments) to   *)
(* the Tree value after the call, the result and the returned value; the   *)
(* actions apply these operators to one Tree, with NodeIds of that Tree    *)
(* and of a second Tree built with a root.                                 *)
(***************************************************************************)
EXTENDS Integers, Sequences, FiniteSets, TLC

\* Bounds of the model: the slots a tree may grow to, the calls of one run.
MaxSlots == 3
MaxCalls == 6

\* The tree the caller works on, and a second tree that only lends its NodeId.
Operated == {1}
Lending == {2}
TreeIds == Operated \cup Lending

\* The payloads a caller inserts.
Data == {0, 1}

(***************************************************************************)
(* NodeId, Option<NodeId>, Node<T>, Option<Node<T>>                        *)
(***************************************************************************)
NodeId(t, i) == [tree_id |-> t, index |-> i]

\* Option<NodeId>::None
NoId == [tree_id |-> 0, index |-> 0]

\* Node::new(data): no parent, no children
Node_new(d) == [some |-> TRUE, data |-> d, parent |-> NoId, children |-> <<>>]

\* a vacated slot of Tree.nodes (Option<Node<T>>::None)
Vacant == [some |-> FALSE, data |-> 0, parent |-> NoId, children |-> <<>>]

\* TreeBuilder::build(): a root given to the builder takes slot 0
TreeBuilder_build(t, root) ==
    [id |-> t,
     root |-> IF root.some THEN NodeId(t, 0) ELSE NoId,
     nodes |-> IF root.some THEN <<root>> ELSE <<>>,
     free_ids |-> <<>>,
     fatal |-> "None"]

\* Tree::new(): TreeBuilder::new().build(), no root, no nodes, no free ids
Tree_new(t) == TreeBuilder_build(t, Vacant)

(***************************************************************************)
(* Vec operations, indices 0-based as in the source                        *)
(***************************************************************************)
\* Vec::swap_remove(i): the last element takes the place of element i
swap_remove(v, i) ==
    IF i + 1 = Len(v) THEN SubSeq(v, 1, Len(v) - 1)
    ELSE SubSeq(v, 1, i) \o <<v[Len(v)]>> \o SubSeq(v, i + 2, Len(v) - 1)

\* Vec::retain(|id| id != x)
retain(v, x) == SelectSeq(v, LAMBDA y : y # x)

\* iter().enumerate().find(|&(_, id)| id == x): first position of x, -1 if none
position(v, x) ==
    IF \E j \in 1..Len(v) : v[j] = x
    THEN (CHOOSE j \in 1..Len(v) : v[j] = x /\ \A k \in 1..(j - 1) : v[k] # x) - 1
    ELSE -1

\* Vec::swap(i, j)
swap(v, i, j) == [v EXCEPT ![i + 1] = v[j + 1], ![j + 1] = v[i + 1]]

(***************************************************************************)
(* Slot access.  A call that panics leaves the Tree as it is at that point *)
(* and marks it fatal; nothing of the call runs after that.                *)
(***************************************************************************)
Running(tree) == tree.fatal = "None"

Abort(tree, kind) == IF Running(tree) THEN [tree EXCEPT !.fatal = kind] ELSE tree

\* the slot a NodeId names holds a node
Occupied(tree, id) == id.index < Len(tree.nodes) /\ tree.nodes[id.index + 1].some

\* get_unsafe: expect() on the slot
get_unsafe(tree, id) == tree.nodes[id.index + 1]

\* get_mut_unsafe followed by the assignment of one field of the node: expect()
\* panics on a vacated slot
get_mut_unsafe(tree, id, field, value) ==
    IF ~Running(tree) THEN tree
    ELSE IF ~Occupied(tree, id) THEN Abort(tree, "Panic")
    ELSE [tree EXCEPT !.nodes[id.index + 1][field] = value]

set_parent(tree, id, p) == get_mut_unsafe(tree, id, "parent", p)

add_child(tree, id, c) ==
    get_mut_unsafe(tree, id, "children", Append(get_unsafe(tree, id).children, c))

retain_children(tree, id, c) ==
    get_mut_unsafe(tree, id, "children", retain(get_unsafe(tree, id).children, c))

set_children(tree, id, cs) == get_mut_unsafe(tree, id, "children", cs)

\* take_children: the node keeps an empty list
take_children(tree, id) == set_children(tree, id, <<>>)

\* replace_child(old, new): unwrap() panics when old is not a child
replace_child(tree, id, old, new) ==
    IF ~Running(tree) THEN tree
    ELSE IF ~Occupied(tree, id) THEN Abort(tree, "Panic")
    ELSE LET cs == get_unsafe(tree, id).children
             ix == position(cs, old)
         IN  IF ix < 0 THEN Abort(tree, "Panic")
             ELSE set_children(tree, id, swap_remove(Append(cs, new), ix))

set_root_field(tree, r) == IF Running(tree) THEN [tree EXCEPT !.root = r] ELSE tree

(***************************************************************************)
(* Validation                                                              *)
(***************************************************************************)
\* is_valid_node_id without the check that the slot is occupied
is_valid_node_id_no_slot_check(tree, id) ==
    IF id.tree_id # tree.id THEN "InvalidNodeIdForTree"
    ELSE IF id.index >= Len(tree.nodes) THEN "Panic"
    ELSE "Ok"

\* is_valid_node_id without the comparison of tree identities
is_valid_node_id_no_tree_check(tree, id) ==
    IF id.index >= Len(tree.nodes) THEN "Panic"
    ELSE IF ~tree.nodes[id.index + 1].some THEN "NodeIdNoLongerValid"
    ELSE "Ok"

\* is_valid_node_id that looks at the slot before it compares tree identities
is_valid_node_id_slot_first(tree, id) ==
    IF id.index >= Len(tree.nodes) THEN "Panic"
    ELSE IF ~tree.nodes[id.index + 1].some THEN "NodeIdNoLongerValid"
    ELSE IF id.tree_id # tree.id THEN "InvalidNodeIdForTree"
    ELSE "Ok"

\* Tree::is_valid_node_id: the tree identity first, then the bounds, then the slot
is_valid_node_id(tree, id) ==
    IF id.tree_id # tree.id THEN "InvalidNodeIdForTree"
    ELSE IF id.index >= Len(tree.nodes) THEN "Panic"
    ELSE IF ~tree.nodes[id.index + 1].some THEN "NodeIdNoLongerValid"
    ELSE "Ok"

\* validate_node_id without the check that the slot is occupied
validate_node_id_no_slot_check(tree, id) ==
    IF id.tree_id # tree.id THEN "InvalidNodeIdForTree"
    ELSE IF id.index >= Len(tree.nodes) THEN "Panic"
    ELSE "Ok"

\* CoreTree::validate_node_id: the same checks, as a Result
validate_node_id(tree, id) ==
    IF id.tree_id # tree.id THEN "InvalidNodeIdForTree"
    ELSE IF id.index >= Len(tree.nodes) THEN "Panic"
    ELSE IF ~tree.nodes[id.index + 1].some THEN "NodeIdNoLongerValid"
    ELSE "Ok"

\* the outcome of a call that stops at validation
Rejected(tree, v) ==
    [tree |-> IF v = "Panic" THEN Abort(tree, "Panic") ELSE tree,
     res |-> v, id |-> NoId, node |-> Vacant]

\* the outcome of a call that ran its body
Done(tree, id, node) ==
    [tree |-> tree, res |-> IF Running(tree) THEN "Ok" ELSE tree.fatal,
     id |-> id, node |-> node]

(***************************************************************************)
(* Private helpers of Tree                                                 *)
(***************************************************************************)
RECURSIVE find_subtree_root_walk(_, _, _, _)
\* the recursion of find_subtree_root_between_ids; it has no state but lower_id,
\* so it never returns once it meets a NodeId again
find_subtree_root_walk(tree, lower_id, upper_id, seen) ==
    IF lower_id \in seen THEN [st |-> "Diverge", id |-> NoId]
    ELSE IF ~Occupied(tree, lower_id) THEN [st |-> "Panic", id |-> NoId]
    ELSE LET lower_parent == get_unsafe(tree, lower_id).parent
         IN  IF lower_parent = NoId THEN [st |-> "Ok", id |-> NoId]
             ELSE IF lower_parent = upper_id THEN [st |-> "Ok", id |-> lower_id]
             ELSE find_subtree_root_walk(tree, lower_parent, upper_id, seen \cup {lower_id})

find_subtree_root_between_ids(tree, lower_id, upper_id) ==
    find_subtree_root_walk(tree, lower_id, upper_id, {})

set_as_parent_and_child(tree, parent_id, child_id) ==
    set_parent(add_child(tree, parent_id, child_id), child_id, parent_id)

\* insert_new_node that pushes the node and forgets the swap_remove into the
\* reused slot
insert_new_node_no_swap_remove(tree, new_node) ==
    IF Len(tree.free_ids) > 0
    THEN [tree |-> [tree EXCEPT
                      !.free_ids = SubSeq(@, 1, Len(@) - 1),
                      !.nodes = Append(@, new_node)],
          id |-> tree.free_ids[Len(tree.free_ids)]]
    ELSE [tree |-> [tree EXCEPT !.nodes = Append(@, new_node)],
          id |-> NodeId(tree.id, Len(tree.nodes))]

\* insert_new_node that reuses the NodeId vacated first, not the one vacated last
insert_new_node_oldest_first(tree, new_node) ==
    IF Len(tree.free_ids) > 0
    THEN LET new_node_id == tree.free_ids[1]
         IN  [tree |-> [tree EXCEPT
                          !.free_ids = Tail(@),
                          !.nodes = swap_remove(Append(@, new_node), new_node_id.index)],
              id |-> new_node_id]
    ELSE [tree |-> [tree EXCEPT !.nodes = Append(@, new_node)],
          id |-> NodeId(tree.id, Len(tree.nodes))]

\* [tree, id]: reuses the NodeId popped from free_ids, else appends a slot
insert_new_node(tree, new_node) ==
    IF Len(tree.free_ids) > 0
    THEN LET new_node_id == tree.free_ids[Len(tree.free_ids)]
         IN  [tree |-> [tree EXCEPT
                          !.free_ids = SubSeq(@, 1, Len(@) - 1),
                          !.nodes = swap_remove(Append(@, new_node), new_node_id.index)],
              id |-> new_node_id]
    ELSE [tree |-> [tree EXCEPT !.nodes = Append(@, new_node)],
          id |-> NodeId(tree.id, Len(tree.nodes))]

\* take_node that takes the slot out of the storage: swap_remove with no None
\* pushed first, so the storage gets shorter
take_node_shrinks(tree, node_id) ==
    IF ~Running(tree) THEN [tree |-> tree, node |-> Vacant]
    ELSE IF ~Occupied(tree, node_id)
    THEN [tree |-> Abort(tree, "Panic"), node |-> Vacant]
    ELSE [tree |-> [tree EXCEPT
                      !.nodes = swap_remove(@, node_id.index),
                      !.free_ids = Append(@, node_id)],
          node |-> get_unsafe(tree, node_id)]

\* take_node that vacates the slot and forgets to push the NodeId on free_ids
take_node_forgets_id(tree, node_id) ==
    IF ~Running(tree) THEN [tree |-> tree, node |-> Vacant]
    ELSE IF ~Occupied(tree, node_id)
    THEN [tree |-> Abort([tree EXCEPT !.nodes = swap_remove(Append(@, Vacant), node_id.index)],
                         "Panic"),
          node |-> Vacant]
    ELSE [tree |-> [tree EXCEPT !.nodes = swap_remove(Append(@, Vacant), node_id.index)],
          node |-> get_unsafe(tree, node_id)]

\* [tree, node]: vacates the slot and pushes the NodeId on free_ids
take_node(tree, node_id) ==
    IF ~Running(tree) THEN [tree |-> tree, node |-> Vacant]
    ELSE IF ~Occupied(tree, node_id)
    THEN [tree |-> Abort([tree EXCEPT !.nodes = swap_remove(Append(@, Vacant), node_id.index)],
                         "Panic"),
          node |-> Vacant]
    ELSE [tree |-> [tree EXCEPT
                      !.nodes = swap_remove(Append(@, Vacant), node_id.index),
                      !.free_ids = Append(@, node_id)],
          node |-> get_unsafe(tree, node_id)]

\* remove_node that never resets the root
remove_node_keeps_root(tree, node_id) ==
    LET tk == take_node(tree, node_id)
        t2 == IF Running(tk.tree) /\ tk.node.parent # NoId
              THEN retain_children(tk.tree, tk.node.parent, node_id)
              ELSE tk.tree
    IN  [tree |-> t2, node |-> [tk.node EXCEPT !.children = <<>>, !.parent = NoId]]

\* remove_node that hands the node back with its links as they were
remove_node_keeps_links(tree, node_id) ==
    LET t1 == IF tree.root # NoId /\ node_id = tree.root
              THEN set_root_field(tree, NoId) ELSE tree
        tk == take_node(t1, node_id)
        t2 == IF Running(tk.tree) /\ tk.node.parent # NoId
              THEN retain_children(tk.tree, tk.node.parent, node_id)
              ELSE tk.tree
    IN  [tree |-> t2, node |-> tk.node]

\* [tree, node]: the node leaves the tree and its parent's children
remove_node(tree, node_id) ==
    LET t1 == IF tree.root # NoId /\ node_id = tree.root
              THEN set_root_field(tree, NoId) ELSE tree
        tk == take_node(t1, node_id)
        t2 == IF Running(tk.tree) /\ tk.node.parent # NoId
              THEN retain_children(tk.tree, tk.node.parent, node_id)
              ELSE tk.tree
    IN  [tree |-> t2, node |-> [tk.node EXCEPT !.children = <<>>, !.parent = NoId]]

clear_parent(tree, node_id) == set_parent(tree, node_id, NoId)

RECURSIVE clear_parent_loop(_, _)
clear_parent_loop(tree, children) ==
    IF children = <<>> THEN tree
    ELSE clear_parent_loop(clear_parent(tree, Head(children)), Tail(children))

clear_parent_of_children(tree, node_id) ==
    clear_parent_loop(tree, get_unsafe(tree, node_id).children)

(***************************************************************************)
(* Public operations of Tree: [tree, res, id, node]                        *)
(***************************************************************************)
\* set_root that stores the new root without linking the old one under it
set_root_unlinked(tree, d) ==
    LET ins == insert_new_node(tree, Node_new(d))
    IN  Done(set_root_field(ins.tree, ins.id), ins.id, Vacant)

set_root(tree, d) ==
    LET ins == insert_new_node(tree, Node_new(d))
        t1 == IF tree.root # NoId
              THEN set_as_parent_and_child(ins.tree, ins.id, tree.root)
              ELSE ins.tree
    IN  Done(set_root_field(t1, ins.id), ins.id, Vacant)

\* insert_with_parent that sets the parent link and forgets the parent's children
insert_with_parent_no_child_entry(tree, d, parent_id) ==
    LET v == is_valid_node_id(tree, parent_id)
    IN  IF v # "Ok" THEN Rejected(tree, v)
        ELSE LET ins == insert_new_node(tree, Node_new(d))
             IN  Done(set_parent(ins.tree, ins.id, parent_id), ins.id, Vacant)

insert_with_parent(tree, d, parent_id) ==
    LET v == is_valid_node_id(tree, parent_id)
    IN  IF v # "Ok" THEN Rejected(tree, v)
        ELSE LET ins == insert_new_node(tree, Node_new(d))
             IN  Done(set_as_parent_and_child(ins.tree, parent_id, ins.id), ins.id, Vacant)

\* CoreTree::get and CoreTree::get_mut: validate, then get_unsafe / get_mut_unsafe
get(tree, node_id) ==
    LET v == validate_node_id(tree, node_id)
    IN  IF v # "Ok" THEN Rejected(tree, v)
        ELSE Done(tree, node_id, get_unsafe(tree, node_id))

get_mut(tree, node_id) ==
    LET v == validate_node_id(tree, node_id)
    IN  IF v # "Ok" THEN Rejected(tree, v)
        ELSE Done(tree, node_id, get_unsafe(tree, node_id))

\* an iterator constructor (ancestors): validate, then build the iterator
ancestors(tree, node_id) ==
    LET v == validate_node_id(tree, node_id)
    IN  IF v # "Ok" THEN Rejected(tree, v) ELSE Done(tree, node_id, Vacant)

RECURSIVE lift_loop(_, _, _)
\* for child_id in children: set_as_parent_and_child(parent_id, child_id)
lift_loop(tree, parent_id, children) ==
    IF children = <<>> THEN tree
    ELSE lift_loop(set_as_parent_and_child(tree, parent_id, Head(children)),
                   parent_id, Tail(children))

\* remove_node_lift_children that leaves the children of a parentless node as
\* they are
remove_node_lift_children_keeps_parent(tree, node_id) ==
    LET v == is_valid_node_id(tree, node_id)
    IN  IF v # "Ok" THEN Rejected(tree, v)
        ELSE LET n == get_unsafe(tree, node_id)
                 t1 == IF n.parent # NoId
                       THEN lift_loop(tree, n.parent, n.children)
                       ELSE tree
                 rm == remove_node(t1, node_id)
             IN  Done(rm.tree, node_id, rm.node)

remove_node_lift_children(tree, node_id) ==
    LET v == is_valid_node_id(tree, node_id)
    IN  IF v # "Ok" THEN Rejected(tree, v)
        ELSE LET n == get_unsafe(tree, node_id)
                 t1 == IF n.parent # NoId
                       THEN lift_loop(tree, n.parent, n.children)
                       ELSE clear_parent_of_children(tree, node_id)
                 rm == remove_node(t1, node_id)
             IN  Done(rm.tree, node_id, rm.node)

\* remove_node_orphan_children that returns the node as it was before the call
remove_node_orphan_children_original(tree, node_id) ==
    LET v == is_valid_node_id(tree, node_id)
    IN  IF v # "Ok" THEN Rejected(tree, v)
        ELSE LET rm == remove_node(clear_parent_of_children(tree, node_id), node_id)
             IN  Done(rm.tree, node_id, get_unsafe(tree, node_id))

remove_node_orphan_children(tree, node_id) ==
    LET v == is_valid_node_id(tree, node_id)
    IN  IF v # "Ok" THEN Rejected(tree, v)
        ELSE LET rm == remove_node(clear_parent_of_children(tree, node_id), node_id)
             IN  Done(rm.tree, node_id, rm.node)

RECURSIVE remove_node_drop_children(_, _)
RECURSIVE drop_loop(_, _)
\* for child in children.drain(..): try!(remove_node_drop_children(child))
drop_loop(tree, children) ==
    IF children = <<>> THEN Done(tree, NoId, Vacant)
    ELSE LET r == remove_node_drop_children(tree, Head(children))
         IN  IF r.res # "Ok" THEN r ELSE drop_loop(r.tree, Tail(children))

remove_node_drop_children(tree, node_id) ==
    LET v == is_valid_node_id(tree, node_id)
    IN  IF v # "Ok" THEN Rejected(tree, v)
        ELSE LET children == get_unsafe(tree, node_id).children
                 l == drop_loop(take_children(tree, node_id), children)
             IN  IF l.res # "Ok" THEN [l EXCEPT !.id = NoId, !.node = Vacant]
                 ELSE LET rm == remove_node(l.tree, node_id)
                      IN  Done(rm.tree, node_id, rm.node)

move_node_to_parent(tree, node_id, parent_id) ==
    LET v1 == is_valid_node_id(tree, node_id)
        v2 == is_valid_node_id(tree, parent_id)
    IN  IF v1 # "Ok" THEN Rejected(tree, v1)
        ELSE IF v2 # "Ok" THEN Rejected(tree, v2)
        ELSE LET f == find_subtree_root_between_ids(tree, parent_id, node_id)
                 subtree_root_id == f.id
                 old_parent == get_unsafe(tree, node_id).parent
             IN  IF f.st # "Ok" THEN Done(Abort(tree, f.st), NoId, Vacant)
                 ELSE IF subtree_root_id # NoId
                 THEN \* a move "down" the tree
                      IF tree.root = node_id
                      THEN LET t1 == retain_children(tree, node_id, subtree_root_id)
                               t2 == set_parent(t1, subtree_root_id, NoId)
                               t3 == set_root_field(t2, subtree_root_id)
                           IN  Done(set_as_parent_and_child(t3, parent_id, node_id),
                                    NoId, Vacant)
                      ELSE LET t1 == IF old_parent # NoId
                                     THEN set_as_parent_and_child(
                                              retain_children(tree, old_parent, node_id),
                                              old_parent, subtree_root_id)
                                     ELSE set_parent(tree, subtree_root_id, NoId)
                               t2 == retain_children(t1, node_id, subtree_root_id)
                           IN  Done(set_as_parent_and_child(t2, parent_id, node_id),
                                    NoId, Vacant)
                 ELSE \* a move "across" or "up" the tree
                      LET t1 == IF old_parent # NoId
                                THEN retain_children(tree, old_parent, node_id)
                                ELSE tree
                      IN  Done(set_as_parent_and_child(t1, parent_id, node_id), NoId, Vacant)

\* the key a comparator or key extractor orders a child by
Key(kind, n) ==
    CASE kind = "data" -> n.data
      [] kind = "reverse" -> 0 - n.data
      [] OTHER -> 0

\* x goes before the first element that is greater: equal elements keep their order
insert_stable(sorted, x, K) ==
    LET later == {j \in 1..Len(sorted) : K[sorted[j]] > K[x]}
        p == IF later = {} THEN Len(sorted) + 1
             ELSE CHOOSE j \in later : \A k \in later : j <= k
    IN  SubSeq(sorted, 1, p - 1) \o <<x>> \o SubSeq(sorted, p, Len(sorted))

RECURSIVE stable_sort(_, _)
\* slice::sort_by / sort_by_key: a stable sort
stable_sort(v, K) ==
    IF v = <<>> THEN <<>>
    ELSE insert_stable(stable_sort(SubSeq(v, 1, Len(v) - 1), K), v[Len(v)], K)

\* the body shared by sort_children_by, sort_children_by_data and sort_children_by_key:
\* take the children, sort them by the nodes they name, put them back
sort_children(tree, node_id, kind) ==
    LET v == is_valid_node_id(tree, node_id)
    IN  IF v # "Ok" THEN Rejected(tree, v)
        ELSE LET children == get_unsafe(tree, node_id).children
                 t1 == take_children(tree, node_id)
                 ids == {children[j] : j \in 1..Len(children)}
             IN  IF Len(children) >= 2 /\ \E c \in ids : ~Occupied(t1, c)
                 THEN Done(Abort(t1, "Panic"), NoId, Vacant)
                 ELSE LET K == [c \in ids |-> Key(kind, get_unsafe(t1, c))]
                      IN  Done(set_children(t1, node_id, stable_sort(children, K)),
                               NoId, Vacant)

sort_children_by(tree, node_id, compare) == sort_children(tree, node_id, compare)

sort_children_by_data(tree, node_id) == sort_children(tree, node_id, "data")

sort_children_by_key(tree, node_id, f) == sort_children(tree, node_id, f)

swap_sub_tree(tree, first_id, second_id) ==
    LET v1 == is_valid_node_id(tree, first_id)
        v2 == is_valid_node_id(tree, second_id)
    IN  IF v1 # "Ok" THEN Rejected(tree, v1)
        ELSE IF v2 # "Ok" THEN Rejected(tree, v2)
        ELSE LET f1 == find_subtree_root_between_ids(tree, first_id, second_id)
                 f2 == find_subtree_root_between_ids(tree, second_id, first_id)
                 first_parent_id == get_unsafe(tree, first_id).parent
                 second_parent_id == get_unsafe(tree, second_id).parent
             IN  IF f1.st # "Ok" THEN Done(Abort(tree, f1.st), NoId, Vacant)
                 ELSE IF f2.st # "Ok" THEN Done(Abort(tree, f2.st), NoId, Vacant)
                 ELSE IF f1.id # NoId \/ f2.id # NoId
                 THEN LET lower_id == IF f1.id # NoId THEN first_id ELSE second_id
                          upper_id == IF f1.id # NoId THEN second_id ELSE first_id
                          upper_parent_id == get_unsafe(tree, upper_id).parent
                          lower_parent_id == get_unsafe(tree, lower_id).parent
                          t1 == set_parent(tree, lower_id, upper_parent_id)
                          t2 == retain_children(t1, lower_parent_id, lower_id)
                          t3 == IF upper_parent_id # NoId
                                THEN replace_child(t2, upper_parent_id, upper_id, lower_id)
                                ELSE IF t2.root = upper_id
                                THEN set_root_field(t2, lower_id)
                                ELSE t2
                          t4 == set_parent(t3, upper_id, lower_id)
                      IN  Done(add_child(t4, lower_id, upper_id), NoId, Vacant)
                 ELSE \* just across
                      IF first_parent_id = second_parent_id
                      THEN IF first_parent_id # NoId
                           THEN IF ~Occupied(tree, first_parent_id)
                                   \/ position(get_unsafe(tree, first_parent_id).children,
                                               first_id) < 0
                                   \/ position(get_unsafe(tree, first_parent_id).children,
                                               second_id) < 0
                                THEN Done(Abort(tree, "Panic"), NoId, Vacant)
                                ELSE LET cs == get_unsafe(tree, first_parent_id).children
                                     IN  Done(set_children(tree, first_parent_id,
                                                  swap(cs, position(cs, first_id),
                                                       position(cs, second_id))),
                                              NoId, Vacant)
                           ELSE Done(tree, NoId, Vacant)
                      ELSE IF first_parent_id = NoId \/ second_parent_id = NoId
                      THEN \* unwrap() of an absent parent
                           Done(Abort(tree, "Panic"), NoId, Vacant)
                      ELSE LET t1 == set_parent(tree, first_id, second_parent_id)
                               t2 == set_parent(t1, second_id, first_parent_id)
                               t3 == replace_child(t2, first_parent_id, first_id, second_id)
                           IN  Done(replace_child(t3, second_parent_id, second_id, first_id),
                                    NoId, Vacant)

(***************************************************************************)
(* The state: two Tree instances and what the caller holds and saw last    *)
(***************************************************************************)
VARIABLES
    trees,          \* TreeIds -> Tree
    calls,          \* the number of calls made so far
    op,             \* the operation called last
    branch,         \* the branch of its body that ran
    result,         \* what it returned: "Ok", a NodeIdError, or a fatal outcome
    issued,         \* [id, data]: the NodeIds insertions returned and no removal took since
    stale,          \* the NodeIds removed and not returned again by an insertion since
    last_removed,   \* the NodeId the last call removed, when it was a successful removal
    returned        \* the Node that removal gave back to the caller (Vacant otherwise)

vars == <<trees, calls, op, branch, result, issued, stale, last_removed, returned>>

\* the NodeIds a caller can hold: every NodeId a tree has ever returned
Known == UNION {{NodeId(t, i) : i \in 0..(Len(trees[t].nodes) - 1)} : t \in TreeIds}

NodeIdErrors == {"InvalidNodeIdForTree", "NodeIdNoLongerValid"}

AllRunning == \A t \in TreeIds : Running(trees[t])

\* a caller makes one more call: no call follows a fatal one
Call == AllRunning /\ calls < MaxCalls /\ calls' = calls + 1

\* room for one more node within the bound
CanInsert(t) == Len(trees[t].nodes) < MaxSlots \/ Len(trees[t].free_ids) > 0

\* the NodeIds of tree whose slot a call vacated
Vacated(before, after) ==
    {NodeId(before.id, i) : i \in {j \in 0..(Len(before.nodes) - 1) :
        before.nodes[j + 1].some
        /\ (j >= Len(after.nodes) \/ ~after.nodes[j + 1].some)}}

Init ==
    /\ trees = [t \in TreeIds |->
                   IF t \in Operated THEN Tree_new(t)
                   ELSE TreeBuilder_build(t, Node_new(0))]
    /\ calls = 0
    /\ op = "new"
    /\ branch = "none"
    /\ result = "Ok"
    /\ issued = {}
    /\ stale = {}
    /\ last_removed = NoId
    /\ returned = Vacant

\* a call on tree t that inserts payload d
Inserted(t, name, r, d) ==
    /\ trees' = [trees EXCEPT ![t] = r.tree]
    /\ op' = name
    /\ branch' = "none"
    /\ result' = r.res
    /\ issued' = IF r.res = "Ok" THEN issued \cup {[id |-> r.id, data |-> d]} ELSE issued
    /\ stale' = IF r.res = "Ok" THEN stale \ {r.id} ELSE stale
    /\ last_removed' = NoId
    /\ returned' = Vacant

\* a call on tree t that removes
Removed(t, name, r) ==
    LET gone == Vacated(trees[t], r.tree)
    IN  /\ trees' = [trees EXCEPT ![t] = r.tree]
        /\ op' = name
        /\ branch' = "none"
        /\ result' = r.res
        /\ issued' = {e \in issued : e.id \notin gone}
        /\ stale' = stale \cup gone
        /\ last_removed' = IF r.res = "Ok" THEN r.id ELSE NoId
        /\ returned' = IF r.res = "Ok" THEN r.node ELSE Vacant

\* any other call on tree t
Called(t, name, br, r) ==
    /\ trees' = [trees EXCEPT ![t] = r.tree]
    /\ op' = name
    /\ branch' = br
    /\ result' = r.res
    /\ UNCHANGED <<issued, stale>>
    /\ last_removed' = NoId
    /\ returned' = Vacant

SetRoot(t, d) ==
    /\ Call
    /\ CanInsert(t)
    /\ Inserted(t, "set_root", set_root(trees[t], d), d)

InsertWithParent(t, d, parent_id) ==
    /\ Call
    /\ CanInsert(t) \/ is_valid_node_id(trees[t], parent_id) # "Ok"
    /\ Inserted(t, "insert_with_parent", insert_with_parent(trees[t], d, parent_id), d)

Get(t, node_id) ==
    /\ Call
    /\ Called(t, "get", "none", get(trees[t], node_id))

GetMut(t, node_id) ==
    /\ Call
    /\ Called(t, "get_mut", "none", get_mut(trees[t], node_id))

Ancestors(t, node_id) ==
    /\ Call
    /\ Called(t, "ancestors", "none", ancestors(trees[t], node_id))

RemoveNodeLiftChildren(t, node_id) ==
    /\ Call
    /\ Removed(t, "remove_node_lift_children", remove_node_lift_children(trees[t], node_id))

RemoveNodeOrphanChildren(t, node_id) ==
    /\ Call
    /\ Removed(t, "remove_node_orphan_children",
               remove_node_orphan_children(trees[t], node_id))

RemoveNodeDropChildren(t, node_id) ==
    /\ Call
    /\ Removed(t, "remove_node_drop_children", remove_node_drop_children(trees[t], node_id))

\* which branch of move_node_to_parent two valid NodeIds take
MoveBranch(tree, node_id, parent_id) ==
    IF is_valid_node_id(tree, node_id) # "Ok" \/ is_valid_node_id(tree, parent_id) # "Ok"
    THEN "none"
    ELSE LET f == find_subtree_root_between_ids(tree, parent_id, node_id)
         IN  IF f.st # "Ok" THEN "none"
             ELSE IF f.id = NoId THEN "across"
             ELSE IF tree.root = node_id THEN "down_root"
             ELSE "down"

MoveNodeToParent(t, node_id, parent_id) ==
    /\ Call
    /\ Called(t, "move_node_to_parent", MoveBranch(trees[t], node_id, parent_id),
              move_node_to_parent(trees[t], node_id, parent_id))

SortChildrenBy(t, node_id, compare) ==
    /\ Call
    /\ Called(t, "sort_children_by", "none", sort_children_by(trees[t], node_id, compare))

SortChildrenByData(t, node_id) ==
    /\ Call
    /\ Called(t, "sort_children_by_data", "none", sort_children_by_data(trees[t], node_id))

SortChildrenByKey(t, node_id, f) ==
    /\ Call
    /\ Called(t, "sort_children_by_key", "none", sort_children_by_key(trees[t], node_id, f))

\* which branch of swap_sub_tree two valid NodeIds take
SwapBranch(tree, first_id, second_id) ==
    IF is_valid_node_id(tree, first_id) # "Ok" \/ is_valid_node_id(tree, second_id) # "Ok"
    THEN "none"
    ELSE LET f1 == find_subtree_root_between_ids(tree, first_id, second_id)
             f2 == find_subtree_root_between_ids(tree, second_id, first_id)
         IN  IF f1.st # "Ok" \/ f2.st # "Ok" THEN "none"
             ELSE IF f1.id # NoId \/ f2.id # NoId THEN "lower_upper"
             ELSE IF get_unsafe(tree, first_id).parent = get_unsafe(tree, second_id).parent
             THEN "same_parent"
             ELSE "across"

SwapSubTree(t, first_id, second_id) ==
    /\ Call
    /\ Called(t, "swap_sub_tree", SwapBranch(trees[t], first_id, second_id),
              swap_sub_tree(trees[t], first_id, second_id))

Next ==
    \E t \in Operated :
        \/ \E d \in Data : SetRoot(t, d)
        \/ \E d \in Data, h \in Known : InsertWithParent(t, d, h)
        \/ \E h \in Known : Get(t, h)
        \/ \E h \in Known : GetMut(t, h)
        \/ \E h \in Known : Ancestors(t, h)
        \/ \E h \in Known : RemoveNodeLiftChildren(t, h)
        \/ \E h \in Known : RemoveNodeOrphanChildren(t, h)
        \/ \E h \in Known : RemoveNodeDropChildren(t, h)
        \/ \E h \in Known, p \in Known : MoveNodeToParent(t, h, p)
        \/ \E h \in Known, c \in {"data", "reverse"} : SortChildrenBy(t, h, c)
        \/ \E h \in Known : SortChildrenByData(t, h)
        \/ \E h \in Known, f \in {"data", "constant"} : SortChildrenByKey(t, h, f)
        \/ \E h \in Known, g \in Known : SwapSubTree(t, h, g)

Spec == Init /\ [][Next]_vars

(***************************************************************************)
(* Vocabulary of the properties                                           *)
(***************************************************************************)
\* the NodeIds of the occupied slots of a tree
AliveIds(tree) ==
    {NodeId(tree.id, i) : i \in {j \in 0..(Len(tree.nodes) - 1) : tree.nodes[j + 1].some}}

ChildSet(tree, x) ==
    {get_unsafe(tree, x).children[j] : j \in 1..Len(get_unsafe(tree, x).children)}

\* every NodeId stored in the tree: the root, the parent links, the children lists
StoredIds(tree) ==
    ({tree.root} \cup {get_unsafe(tree, x).parent : x \in AliveIds(tree)}
        \cup UNION {ChildSet(tree, x) : x \in AliveIds(tree)}) \ {NoId}

RECURSIVE ParentWalk(_, _, _)
\* the node reached from x after at most n steps along parent links: the first
\* parentless node met, or NoId when n steps do not meet one
ParentWalk(tree, x, n) ==
    IF ~Occupied(tree, x) THEN NoId
    ELSE IF get_unsafe(tree, x).parent = NoId THEN x
    ELSE IF n = 0 THEN NoId
    ELSE ParentWalk(tree, get_unsafe(tree, x).parent, n - 1)

\* walking parent links from any alive node ends at a parentless node within
\* as many steps as there are alive nodes
Acyclic(tree) ==
    \A x \in AliveIds(tree) : ParentWalk(tree, x, Cardinality(AliveIds(tree))) # NoId

\* C1: for alive X and Y, Y is in X's children list iff Y's parent link names X,
\* in every state a completed call leaves.
C1_ParentChildSymmetric ==
    \A t \in TreeIds : Running(trees[t]) =>
        \A x \in AliveIds(trees[t]), y \in AliveIds(trees[t]) :
            (y \in ChildSet(trees[t], x)) <=> (get_unsafe(trees[t], y).parent = x)

\* C2: every NodeId stored in a tree (root, parent links, children lists) names an
\* occupied slot of that same tree.
C2_StoredIdsOccupied ==
    \A t \in TreeIds : Running(trees[t]) =>
        \A h \in StoredIds(trees[t]) : h.tree_id = t /\ Occupied(trees[t], h)

\* C3: after a move_node_to_parent call with two valid NodeIds the tree has no
\* cycle: every parent walk ends within as many steps as there are alive nodes.
C3_MoveLeavesNoCycle ==
    \A t \in Operated :
        (op = "move_node_to_parent" /\ result = "Ok") => Acyclic(trees[t])

\* C4: a NodeId returned by set_root or insert_with_parent resolves through get to
\* the payload inserted with it, in every state until that NodeId is removed.
C4_IssuedResolvesToPayload ==
    AllRunning =>
        \A e \in issued :
            /\ get(trees[e.id.tree_id], e.id).res = "Ok"
            /\ get(trees[e.id.tree_id], e.id).node.data = e.data

\* three live NodeIds, two of them with different payloads, right after two of
\* the nodes were swapped
C4_Witness ==
    /\ AllRunning
    /\ op = "swap_sub_tree" /\ branch = "same_parent" /\ result = "Ok"
    /\ \E e \in issued, f \in issued : e.data # f.data
    /\ Cardinality(issued) = 3

EveryCallEndsWith(tree, h, e) ==
    /\ get(tree, h).res = e
    /\ get_mut(tree, h).res = e
    /\ ancestors(tree, h).res = e
    /\ \A d \in Data : insert_with_parent(tree, d, h).res = e
    /\ remove_node_lift_children(tree, h).res = e
    /\ remove_node_orphan_children(tree, h).res = e
    /\ remove_node_drop_children(tree, h).res = e
    /\ \A c \in {"data", "reverse"} : sort_children_by(tree, h, c).res = e
    /\ sort_children_by_data(tree, h).res = e
    /\ \A f \in {"data", "constant"} : sort_children_by_key(tree, h, f).res = e
    /\ \A x \in AliveIds(tree) \cup {h} :
        /\ move_node_to_parent(tree, h, x).res = e
        /\ move_node_to_parent(tree, x, h).res = e
        /\ swap_sub_tree(tree, h, x).res = e
        /\ swap_sub_tree(tree, x, h).res = e

\* the same calls leave the tree as it was
EveryCallLeaves(tree, h) ==
    /\ get(tree, h).tree = tree
    /\ get_mut(tree, h).tree = tree
    /\ ancestors(tree, h).tree = tree
    /\ \A d \in Data : insert_with_parent(tree, d, h).tree = tree
    /\ remove_node_lift_children(tree, h).tree = tree
    /\ remove_node_orphan_children(tree, h).tree = tree
    /\ remove_node_drop_children(tree, h).tree = tree
    /\ \A c \in {"data", "reverse"} : sort_children_by(tree, h, c).tree = tree
    /\ sort_children_by_data(tree, h).tree = tree
    /\ \A f \in {"data", "constant"} : sort_children_by_key(tree, h, f).tree = tree
    /\ \A x \in AliveIds(tree) \cup {h} :
        /\ move_node_to_parent(tree, h, x).tree = tree
        /\ move_node_to_parent(tree, x, h).tree = tree
        /\ swap_sub_tree(tree, h, x).tree = tree
        /\ swap_sub_tree(tree, x, h).tree = tree

Mutators ==
    {"insert_with_parent", "remove_node_lift_children", "remove_node_orphan_children",
     "remove_node_drop_children", "move_node_to_parent", "swap_sub_tree",
     "sort_children_by", "sort_children_by_data", "sort_children_by_key"}

\* C8: a call that returns a NodeIdError leaves the whole tree (slots, free list,
\* root, every parent link and children list) as it was before the call.
C8_ErrorLeavesTreeUnchanged ==
    [][(op' \in Mutators /\ result' \in NodeIdErrors) => trees' = trees]_vars

\* C9: no call ends in a panic or fails to return: every call on every reachable
\* state returns Ok or one of the two NodeIdErrors.
C9_NoPanic ==
    /\ AllRunning
    /\ result \in {"Ok"} \cup NodeIdErrors

RECURSIVE ReachesRoot(_, _, _)
\* x is the root, or the root is met within n steps along parent links from x
ReachesRoot(tree, x, n) ==
    IF ~Occupied(tree, x) THEN FALSE
    ELSE IF x = tree.root THEN TRUE
    ELSE IF get_unsafe(tree, x).parent = NoId \/ n = 0 THEN FALSE
    ELSE ReachesRoot(tree, get_unsafe(tree, x).parent, n - 1)

\* the alive nodes that are neither the root nor under the root
Detached(tree) ==
    {x \in AliveIds(tree) : ~ReachesRoot(tree, x, Cardinality(AliveIds(tree)))}

\* C10: every alive node reaches the root or a parentless node along parent links,
\* and a tree all of whose nodes are under the root comes to hold a node that is
\* not only in a removal that orphans children (remove_node_orphan_children, or
\* remove_node_lift_children of a parentless node).
C10_TreeShape ==
    /\ [](\A t \in Operated : Running(trees[t]) =>
            \A x \in AliveIds(trees[t]) :
                \/ ReachesRoot(trees[t], x, Cardinality(AliveIds(trees[t])))
                \/ ParentWalk(trees[t], x, Cardinality(AliveIds(trees[t]))) # NoId)
    /\ [][\A t \in Operated :
            (Running(trees'[t]) /\ Detached(trees[t]) = {} /\ Detached(trees'[t]) # {})
                => op' \in {"remove_node_orphan_children", "remove_node_lift_children"}]_vars

(***************************************************************************)
(* The effect of one call, stated over every reachable tree                *)
(***************************************************************************)
\* the NodeIds the tree under operation has issued so far
Handles == {k \in Known : k.tree_id \in Operated}

ValidIds(tree) == {k \in Handles : is_valid_node_id(tree, k) = "Ok"}

RECURSIVE SubtreeWalk(_, _, _)
\* S and what is met within n steps along children lists from S
SubtreeWalk(tree, S, n) ==
    IF n = 0 THEN S
    ELSE SubtreeWalk(tree,
                     S \cup UNION {ChildSet(tree, x) : x \in S \cap AliveIds(tree)},
                     n - 1)

\* h and its descendants
Subtree(tree, h) == SubtreeWalk(tree, {h}, Len(tree.nodes))

\* node y is alive in both trees with the same payload, parent link and children
SameNode(before, after, y) ==
    /\ Occupied(before, y) /\ Occupied(after, y)
    /\ get_unsafe(after, y) = get_unsafe(before, y)

\* C11: remove_node_drop_children(h) with h valid removes h and every descendant
\* of h; get then fails for each of them, h is no longer in its former parent's
\* children, and every node outside h's subtree is alive and unchanged except for
\* h's removal from its parent's children.
C11_DropChildrenRemovesSubtree ==
    \A t \in Operated : Running(trees[t]) =>
        \A h \in ValidIds(trees[t]) :
            LET before == trees[t]
                r == remove_node_drop_children(before, h)
                gone == Subtree(before, h)
            IN  r.res = "Ok" =>
                  /\ \A x \in gone : get(r.tree, x).res = "NodeIdNoLongerValid"
                  /\ \A y \in AliveIds(before) \ gone :
                        /\ Occupied(r.tree, y)
                        /\ get_unsafe(r.tree, y).data = get_unsafe(before, y).data
                        /\ get_unsafe(r.tree, y).parent = get_unsafe(before, y).parent
                        /\ get_unsafe(r.tree, y).children
                              = retain(get_unsafe(before, y).children, h)

\* the entries of a sequence
Range(v) == {v[i] : i \in 1..Len(v)}

\* C12: remove_node_lift_children(h), for h with parent P and children c1..cn:
\* afterwards P's children are its former children without h followed by c1..cn
\* in their order, each ci has parent P and keeps its own children, and h is
\* invalid.
C12_LiftChildrenReparents ==
    \A t \in Operated : Running(trees[t]) =>
        \A h \in ValidIds(trees[t]) :
            LET before == trees[t]
                n == get_unsafe(before, h)
                r == remove_node_lift_children(before, h)
            IN  (n.parent # NoId /\ r.res = "Ok") =>
                  /\ Occupied(r.tree, n.parent)
                  /\ get_unsafe(r.tree, n.parent).children
                        = retain(get_unsafe(before, n.parent).children, h) \o n.children
                  /\ \A c \in Range(n.children) :
                        /\ Occupied(r.tree, c)
                        /\ get_unsafe(r.tree, c).parent = n.parent
                        /\ get_unsafe(r.tree, c).children = get_unsafe(before, c).children
                  /\ get(r.tree, h).res = "NodeIdNoLongerValid"

\* C13: remove_node_orphan_children(h), for h with children c1..cn: afterwards
\* every ci is alive with its payload and its own children, every ci has no
\* parent, h is invalid and h is no longer in its former parent's children.
C13_OrphanChildrenDetaches ==
    \A t \in Operated : Running(trees[t]) =>
        \A h \in ValidIds(trees[t]) :
            LET before == trees[t]
                n == get_unsafe(before, h)
                r == remove_node_orphan_children(before, h)
            IN  r.res = "Ok" =>
                  /\ \A c \in Range(n.children) :
                        /\ get(r.tree, c).res = "Ok"
                        /\ get(r.tree, c).node.data = get_unsafe(before, c).data
                        /\ get(r.tree, c).node.children = get_unsafe(before, c).children
                        /\ get(r.tree, c).node.parent = NoId
                  /\ get(r.tree, h).res = "NodeIdNoLongerValid"
                  /\ n.parent # NoId =>
                        /\ Occupied(r.tree, n.parent)
                        /\ h \notin ChildSet(r.tree, n.parent)

Removals ==
    {"remove_node_lift_children", "remove_node_orphan_children", "remove_node_drop_children"}

C16_LiftOfParentlessIsOrphan ==
    \A t \in Operated : Running(trees[t]) =>
        \A h \in ValidIds(trees[t]) :
            get_unsafe(trees[t], h).parent = NoId =>
                remove_node_lift_children(trees[t], h)
                    = remove_node_orphan_children(trees[t], h)

\* a root with one child was just removed with remove_node_lift_children: the
\* child is alive without a parent, the tree has no root
C16_Witness ==
    /\ op = "remove_node_lift_children" /\ result = "Ok"
    /\ calls = 3
    /\ trees[1].root = NoId
    /\ \E x \in AliveIds(trees[1]) : get_unsafe(trees[1], x).parent = NoId

\* C17: a successful removal of the root, under each of the three policies, leaves
\* the tree without a root; a successful remove_node_lift_children or
\* remove_node_orphan_children of another node leaves the root as it was.
C17_RootAfterRemoval ==
    \A t \in Operated : Running(trees[t]) =>
        \A h \in ValidIds(trees[t]) :
            LET before == trees[t]
                lift == remove_node_lift_children(before, h)
                orphan == remove_node_orphan_children(before, h)
                drop == remove_node_drop_children(before, h)
            IN  /\ h = before.root =>
                    /\ lift.res = "Ok" => lift.tree.root = NoId
                    /\ orphan.res = "Ok" => orphan.tree.root = NoId
                    /\ drop.res = "Ok" => drop.tree.root = NoId
                /\ h # before.root =>
                    /\ lift.res = "Ok" => lift.tree.root = before.root
                    /\ orphan.res = "Ok" => orphan.tree.root = before.root

\* a root with one child was just removed with remove_node_drop_children: no
\* node is left and the tree has no root
C17_Witness ==
    /\ op = "remove_node_drop_children" /\ result = "Ok"
    /\ calls = 3
    /\ Len(trees[1].nodes) = 2
    /\ AliveIds(trees[1]) = {}
    /\ trees[1].root = NoId

\* C18: set_root returns a NodeId that is the root and has no parent. If a root R
\* existed, R is the only child of the new root, R's parent link names the new
\* root and the rest of R's subtree is unchanged; if no root existed the new root
\* has no children.
C18_SetRootLinksOldRoot ==
    \A t \in Operated : Running(trees[t]) =>
        \A d \in Data :
            LET before == trees[t]
                r == set_root(before, d)
                new == get_unsafe(r.tree, r.id)
            IN  /\ r.res = "Ok"
                /\ r.tree.root = r.id
                /\ Occupied(r.tree, r.id)
                /\ new.data = d
                /\ new.parent = NoId
                /\ before.root = NoId => new.children = <<>>
                /\ before.root # NoId =>
                    /\ new.children = <<before.root>>
                    /\ get_unsafe(r.tree, before.root).parent = r.id
                    /\ get_unsafe(r.tree, before.root).children
                          = get_unsafe(before, before.root).children
                    /\ get_unsafe(r.tree, before.root).data
                          = get_unsafe(before, before.root).data
                    /\ \A y \in (Subtree(before, before.root) \cap AliveIds(before))
                                    \ {before.root} :
                          SameNode(before, r.tree, y)

\* a third root was just set over a root that has a child of its own
C18_Witness ==
    /\ op = "set_root" /\ result = "Ok"
    /\ calls = 3
    /\ trees[1].root # NoId
    /\ \E x \in AliveIds(trees[1]) :
          /\ get_unsafe(trees[1], trees[1].root).children = <<x>>
          /\ Len(get_unsafe(trees[1], x).children) = 1

\* what C19 says of insert_with_parent(d, p) apart from the validity of NodeIds:
\* the new NodeId is the last entry of p's children after the former entries in
\* their order, the new node has parent p, payload d and no children, the root
\* and every other node are as before
InsertedUnder(before, r, d, p) ==
    /\ r.res = "Ok"
    /\ Occupied(r.tree, r.id)
    /\ get_unsafe(r.tree, r.id) = [Node_new(d) EXCEPT !.parent = p]
    /\ get_unsafe(r.tree, p)
          = [get_unsafe(before, p) EXCEPT !.children = Append(@, r.id)]
    /\ r.tree.root = before.root
    /\ \A y \in AliveIds(before) \ {p} : SameNode(before, r.tree, y)

\* C19 as stated: insert_with_parent under a valid p does the above and changes
\* the validity of no NodeId that existed before the call.
C19_InsertChangesNoValidity ==
    \A t \in Operated : Running(trees[t]) =>
        \A p \in ValidIds(trees[t]), d \in Data :
            LET r == insert_with_parent(trees[t], d, p)
            IN  /\ InsertedUnder(trees[t], r, d, p)
                /\ \A k \in Handles :
                      is_valid_node_id(r.tree, k) = is_valid_node_id(trees[t], k)

\* C19 amended: insert_with_parent under a valid p does the above, every NodeId
\* valid before the call stays valid, and the only NodeId that becomes valid is
\* the one returned, which is a removed NodeId when a vacated slot is reused.
C19_InsertAppendsLastChild ==
    \A t \in Operated : Running(trees[t]) =>
        \A p \in ValidIds(trees[t]), d \in Data :
            LET r == insert_with_parent(trees[t], d, p)
            IN  /\ InsertedUnder(trees[t], r, d, p)
                /\ \A k \in Handles \ {r.id} :
                      is_valid_node_id(r.tree, k) = is_valid_node_id(trees[t], k)
                /\ is_valid_node_id(r.tree, r.id) = "Ok"
                /\ r.id \in Handles => is_valid_node_id(trees[t], r.id) = "NodeIdNoLongerValid"

\* a node was just inserted as the second child of its parent into the slot a
\* removal had vacated
C19_Witness ==
    /\ op = "insert_with_parent" /\ result = "Ok"
    /\ calls = 5
    /\ Len(trees[1].nodes) = 3 /\ trees[1].free_ids = <<>>
    /\ \E x \in AliveIds(trees[1]) :
          /\ Len(get_unsafe(trees[1], x).children) = 2
          /\ get_unsafe(trees[1], x).children[2].index
                < get_unsafe(trees[1], x).children[1].index

\* C20: move_node_to_parent(node, new_parent) of two valid NodeIds where
\* new_parent is not below node succeeds, takes node out of its old parent's
\* children, makes it the last child of new_parent with its parent link naming
\* new_parent, and leaves node's own children and the root as they were.
C20_MoveAcrossReparents ==
    \A t \in Operated : Running(trees[t]) =>
        \A h \in ValidIds(trees[t]) : \A p \in ValidIds(trees[t]) :
            MoveBranch(trees[t], h, p) = "across" =>
                LET before == trees[t]
                    r == move_node_to_parent(before, h, p)
                    q == get_unsafe(before, h).parent
                    kept == IF q = p THEN retain(get_unsafe(before, p).children, h)
                            ELSE get_unsafe(before, p).children
                IN  /\ r.res = "Ok"
                    /\ Running(r.tree)
                    /\ (q # NoId /\ q # p) =>
                          get_unsafe(r.tree, q).children
                              = retain(get_unsafe(before, q).children, h)
                    /\ get_unsafe(r.tree, p).children = Append(kept, h)
                    /\ get_unsafe(r.tree, h).parent = p
                    /\ get_unsafe(r.tree, h).children = get_unsafe(before, h).children
                    /\ r.tree.root = before.root

\* C21: move_node_to_parent(A, B) of two valid NodeIds where B is below A
\* succeeds; with S the child of A on the way to B: S becomes the root without a
\* parent when A was the root, and otherwise the last child of A's old parent,
\* which loses A; A's children are the former ones without S; A is the last
\* child of B and its parent link names B.
C21_MoveDownShiftsUp ==
    \A t \in Operated : Running(trees[t]) =>
        \A A \in ValidIds(trees[t]) : \A B \in ValidIds(trees[t]) :
            MoveBranch(trees[t], A, B) \in {"down", "down_root"} =>
                LET before == trees[t]
                    r == move_node_to_parent(before, A, B)
                    S == find_subtree_root_between_ids(before, B, A).id
                    q == get_unsafe(before, A).parent
                IN  /\ r.res = "Ok"
                    /\ Running(r.tree)
                    /\ before.root = A =>
                          /\ r.tree.root = S
                          /\ get_unsafe(r.tree, S).parent = NoId
                    /\ (before.root # A /\ q # NoId) =>
                          /\ r.tree.root = before.root
                          /\ get_unsafe(r.tree, S).parent = q
                          /\ get_unsafe(r.tree, q).children
                                = Append(retain(get_unsafe(before, q).children, A), S)
                    /\ get_unsafe(r.tree, A).children
                          = retain(get_unsafe(before, A).children, S)
                    /\ get_unsafe(r.tree, A).parent = B
                    /\ get_unsafe(r.tree, B).children
                          = Append(get_unsafe(before, B).children, A)

\* move_node_to_parent(X, Y) and then move_node_to_parent(X, old_parent), with
\* old_parent the parent X has in tree
MoveRoundTrip(tree, X, Y) ==
    move_node_to_parent(move_node_to_parent(tree, X, Y).tree,
                        X, get_unsafe(tree, X).parent)

\* what C22 says the two moves leave behind: X is a child of old_parent again,
\* old_parent has the children it had, as a set, and every node other than X
\* and old_parent has the parent and the children it had
RoundTripRestores(before, r, X) ==
    LET q == get_unsafe(before, X).parent
    IN  /\ r.res = "Ok"
        /\ Running(r.tree)
        /\ get_unsafe(r.tree, X).parent = q
        /\ X \in Range(get_unsafe(r.tree, q).children)
        /\ Range(get_unsafe(r.tree, q).children) = Range(get_unsafe(before, q).children)
        /\ get_unsafe(r.tree, q).parent = get_unsafe(before, q).parent
        /\ \A y \in AliveIds(before) \ {X, q} : SameNode(before, r.tree, y)

\* C22 as stated: for a node X that has a parent and any valid Y, moving X under
\* Y and then back under its old parent restores X among the same siblings and
\* every other node's links.
C22_MoveRoundTripAnywhere ==
    \A t \in Operated : Running(trees[t]) =>
        \A X \in ValidIds(trees[t]) : \A Y \in ValidIds(trees[t]) :
            get_unsafe(trees[t], X).parent # NoId =>
                RoundTripRestores(trees[t], MoveRoundTrip(trees[t], X, Y), X)

\* move_node(node, ToRoot), whose implementation is not among the sources,
\* after its description: detach node from its parent (if any); if a root
\* exists, attach the old root as node's last child; node becomes the root
move_node_to_root(tree, node_id) ==
    LET v == is_valid_node_id(tree, node_id)
    IN  IF v # "Ok" THEN Rejected(tree, v)
        ELSE LET old_parent == get_unsafe(tree, node_id).parent
                 old_root == tree.root
                 t1 == IF old_parent # NoId
                       THEN clear_parent(retain_children(tree, old_parent, node_id),
                                         node_id)
                       ELSE tree
                 t2 == IF old_root # NoId
                       THEN set_as_parent_and_child(t1, node_id, old_root)
                       ELSE t1
             IN  Done(set_root_field(t2, node_id), NoId, Vacant)

WideSlots == 4

\* the trees one more insert_with_parent call makes of the trees of S
Grown(S) ==
    {insert_with_parent(w, d, p).tree : <<w, d, p>> \in
        {x \in S \X Data \X UNION {AliveIds(w) : w \in S} : x[3] \in AliveIds(x[1])}}

RECURSIVE GrownBy(_, _)
GrownBy(S, n) == IF n = 0 THEN S ELSE GrownBy(Grown(S), n - 1)

\* set_root on a new tree, then WideSlots - 1 insertions
WideTrees ==
    GrownBy(UNION {{set_root(Tree_new(t), d).tree : d \in Data} : t \in Operated},
            WideSlots - 1)

InitWide ==
    /\ \E w \in WideTrees :
          /\ trees = [t \in TreeIds |->
                         IF t \in Operated THEN w ELSE TreeBuilder_build(t, Node_new(0))]
          /\ issued = {[id |-> x, data |-> get_unsafe(w, x).data] : x \in AliveIds(w)}
    /\ calls = MaxCalls - 2
    /\ op = "insert_with_parent"
    /\ branch = "none"
    /\ result = "Ok"
    /\ stale = {}
    /\ last_removed = NoId
    /\ returned = Vacant

SpecWide == InitWide /\ [][Next]_vars

\* a children list with its first entry old replaced by new
Spliced(cs, old, new) == [cs EXCEPT ![position(cs, old) + 1] = new]

\* C24: swap_sub_tree(A, B) of two valid NodeIds that both have a parent, neither
\* above the other, succeeds; A has B's former parent and B has A's; A stands in
\* the children of B's former parent where B stood and B where A stood, the
\* other entries of both lists where they were; A and B keep their own children
\* and stay valid.
C24_SwapAcross ==
    \A t \in Operated : Running(trees[t]) =>
        \A A \in ValidIds(trees[t]) : \A B \in ValidIds(trees[t]) :
            LET before == trees[t]
                pa == get_unsafe(before, A).parent
                pb == get_unsafe(before, B).parent
                r == swap_sub_tree(before, A, B)
            IN  (SwapBranch(before, A, B) \in {"same_parent", "across"}
                    /\ pa # NoId /\ pb # NoId) =>
                    /\ r.res = "Ok"
                    /\ Running(r.tree)
                    /\ get_unsafe(r.tree, A).parent = pb
                    /\ get_unsafe(r.tree, B).parent = pa
                    /\ pa # pb =>
                          /\ get_unsafe(r.tree, pa).children
                                = Spliced(get_unsafe(before, pa).children, A, B)
                          /\ get_unsafe(r.tree, pb).children
                                = Spliced(get_unsafe(before, pb).children, B, A)
                    /\ pa = pb =>
                          get_unsafe(r.tree, pa).children
                              = LET cs == get_unsafe(before, pa).children
                                IN  [cs EXCEPT ![position(cs, A) + 1] = B,
                                               ![position(cs, B) + 1] = A]
                    /\ get_unsafe(r.tree, A).children = get_unsafe(before, A).children
                    /\ get_unsafe(r.tree, B).children = get_unsafe(before, B).children
                    /\ is_valid_node_id(r.tree, A) = "Ok"
                    /\ is_valid_node_id(r.tree, B) = "Ok"

\* C25: swap_sub_tree of two valid NodeIds of which one (upper) is above the
\* other (lower), in either order, succeeds; lower leaves its old parent's
\* children and stands where upper stood: at upper's index in the children of
\* upper's parent, with that parent, or as the root without a parent when
\* upper was the root; upper is the last child of lower, its parent link names
\* lower, and it keeps its other children; the tree has no cycle.
C25_SwapLowerUpper ==
    \A t \in Operated : Running(trees[t]) =>
        \A A \in ValidIds(trees[t]) : \A B \in ValidIds(trees[t]) :
            SwapBranch(trees[t], A, B) = "lower_upper" =>
                LET before == trees[t]
                    r == swap_sub_tree(before, A, B)
                    first_is_lower ==
                        find_subtree_root_between_ids(before, A, B).id # NoId
                    lower == IF first_is_lower THEN A ELSE B
                    upper == IF first_is_lower THEN B ELSE A
                    lp == get_unsafe(before, lower).parent
                    up == get_unsafe(before, upper).parent
                IN  /\ r.res = "Ok"
                    /\ Running(r.tree)
                    /\ lp # upper =>
                          get_unsafe(r.tree, lp).children
                              = retain(get_unsafe(before, lp).children, lower)
                    /\ get_unsafe(r.tree, upper).children
                          = retain(get_unsafe(before, upper).children, lower)
                    /\ get_unsafe(r.tree, lower).parent = up
                    /\ up # NoId =>
                          /\ get_unsafe(r.tree, up).children
                                = Spliced(get_unsafe(before, up).children, upper, lower)
                          /\ r.tree.root = before.root
                    /\ before.root = upper => r.tree.root = lower /\ up = NoId
                    /\ get_unsafe(r.tree, upper).parent = lower
                    /\ get_unsafe(r.tree, lower).children
                          = Append(get_unsafe(before, lower).children, upper)
                    /\ Acyclic(r.tree)

\* the comparators and key extractors the calls pass, and the natural order
SortKinds == {"data", "reverse", "constant"}

\* the entries of a children list whose node has key k, in their order
WithKey(tree, cs, kind, k) ==
    SelectSeq(cs, LAMBDA c : Key(kind, get_unsafe(tree, c)) = k)

\* C26: sorting the children of a valid node (by a comparator or a key over the
\* nodes, or by payload) succeeds; the children list is a permutation of the
\* former one, non-decreasing in the order of the call, which compares the nodes
\* the NodeIds name, and children that compare equal keep their relative order;
\* the node's parent and payload and every other node are unchanged.
C26_SortChildrenStable ==
    \A t \in Operated : Running(trees[t]) =>
        \A h \in ValidIds(trees[t]) : \A kind \in SortKinds :
            LET before == trees[t]
                r == sort_children(before, h, kind)
                old == get_unsafe(before, h).children
                new == get_unsafe(r.tree, h).children
            IN  /\ r.res = "Ok"
                /\ Running(r.tree)
                /\ Len(new) = Len(old)
                /\ \A i \in 1..Len(new) : \A j \in i..Len(new) :
                      Key(kind, get_unsafe(before, new[i]))
                          <= Key(kind, get_unsafe(before, new[j]))
                /\ \A k \in {Key(kind, [Vacant EXCEPT !.data = d]) : d \in Data} :
                      WithKey(before, new, kind, k) = WithKey(before, old, kind, k)
                /\ get_unsafe(r.tree, h).parent = get_unsafe(before, h).parent
                /\ get_unsafe(r.tree, h).data = get_unsafe(before, h).data
                /\ r.tree.root = before.root
                /\ \A y \in AliveIds(before) \ {h} : SameNode(before, r.tree, y)

(***************************************************************************)
(* The traversal iterators (src/src/tree/iterators.rs).  An iterator is    *)
(* its queue of NodeIds; a step is [st, data, item] with st "Some", "None" *)
(* or "Panic" (get_unsafe on a vacated slot).  Drained to the end an       *)
(* iterator gives [st, ids]: the NodeIds of the nodes it yielded and "Ok", *)
(* or "Panic", or "Diverge" when a loop of children lists keeps it from    *)
(* reaching the end.                                                       *)
(***************************************************************************)
\* some node met along children lists from start is met again below itself
ChildLoop(tree, start) ==
    \E x \in Subtree(tree, start) \cap AliveIds(tree) :
        x \in SubtreeWalk(tree, ChildSet(tree, x), Len(tree.nodes))

Reverse(v) == [i \in 1..Len(v) |-> v[Len(v) + 1 - i]]

RECURSIVE push_front_all(_, _)
\* for id in ids: data.push_front(id)
push_front_all(data, ids) ==
    IF ids = <<>> THEN data
    ELSE push_front_all(<<Head(ids)>> \o data, Tail(ids))

\* PreOrderTraversal::new: the queue holds the start node
PreOrderTraversal_new(node_id) == <<node_id>>

\* PreOrderTraversal::next: pop the front, push its children to the front, the
\* last child first
PreOrderTraversal_next(tree, data) ==
    IF data = <<>> THEN [st |-> "None", data |-> data, item |-> NoId]
    ELSE IF ~Occupied(tree, Head(data))
    THEN [st |-> "Panic", data |-> Tail(data), item |-> NoId]
    ELSE [st |-> "Some",
          data |-> push_front_all(Tail(data),
                                  Reverse(get_unsafe(tree, Head(data)).children)),
          item |-> Head(data)]

\* LevelOrderTraversal::new
LevelOrderTraversal_new(node_id) == <<node_id>>

\* LevelOrderTraversal::next: pop the front, push its children to the back
LevelOrderTraversal_next(tree, data) ==
    IF data = <<>> THEN [st |-> "None", data |-> data, item |-> NoId]
    ELSE IF ~Occupied(tree, Head(data))
    THEN [st |-> "Panic", data |-> Tail(data), item |-> NoId]
    ELSE [st |-> "Some",
          data |-> Tail(data) \o get_unsafe(tree, Head(data)).children,
          item |-> Head(data)]

RECURSIVE drain(_, _, _)
\* next() until it returns None, for the iterator of the given order
drain(tree, order, data) ==
    LET s == IF order = "pre" THEN PreOrderTraversal_next(tree, data)
             ELSE LevelOrderTraversal_next(tree, data)
    IN  IF s.st = "None" THEN [st |-> "Ok", ids |-> <<>>]
        ELSE IF s.st = "Panic" THEN [st |-> "Panic", ids |-> <<>>]
        ELSE LET rest == drain(tree, order, s.data)
             IN  [st |-> rest.st, ids |-> <<s.item>> \o rest.ids]

\* a pre-order traversal from a valid node, run to its end
traverse_pre_order(tree, node_id) ==
    IF ChildLoop(tree, node_id) THEN [st |-> "Diverge", ids |-> <<>>]
    ELSE drain(tree, "pre", PreOrderTraversal_new(node_id))

\* a level-order traversal from a valid node, run to its end
traverse_level_order(tree, node_id) ==
    IF ChildLoop(tree, node_id) THEN [st |-> "Diverge", ids |-> <<>>]
    ELSE drain(tree, "level", LevelOrderTraversal_new(node_id))

RECURSIVE process_nodes(_, _, _)
RECURSIVE process_children(_, _, _)
\* for child_id in node.children(): process_nodes(child_id, tree, ids)
process_children(tree, children, acc) ==
    IF children = <<>> \/ acc.st # "Ok" THEN acc
    ELSE process_children(tree, Tail(children), process_nodes(tree, Head(children), acc))

\* PostOrderTraversal::process_nodes: the children first, then ids.push(starting_id)
process_nodes(tree, starting_id, acc) ==
    IF acc.st # "Ok" THEN acc
    ELSE IF ~Occupied(tree, starting_id) THEN [acc EXCEPT !.st = "Panic"]
    ELSE LET done == process_children(tree, get_unsafe(tree, starting_id).children, acc)
         IN  IF done.st # "Ok" THEN done
             ELSE [done EXCEPT !.ids = Append(@, starting_id)]

\* PostOrderTraversal::new computes the whole order and next() hands it out: a
\* post-order traversal from a valid node, run to its end
traverse_post_order(tree, node_id) ==
    IF ChildLoop(tree, node_id) THEN [st |-> "Diverge", ids |-> <<>>]
    ELSE process_nodes(tree, node_id, [st |-> "Ok", ids |-> <<>>])

\* the tree 0 -> {1 -> {3, 4}, 2} of the traversal examples, payloads as named,
\* built by set_root and insert_with_parent in the order 0, 1, 2, 3, 4
ExampleTree ==
    LET t0 == set_root(Tree_new(1), 0)
        t1 == insert_with_parent(t0.tree, 1, t0.id)
        t2 == insert_with_parent(t1.tree, 2, t0.id)
        t3 == insert_with_parent(t2.tree, 3, t1.id)
        t4 == insert_with_parent(t3.tree, 4, t1.id)
    IN  t4.tree

\* the payloads of the nodes a sequence of NodeIds names
DataOf(tree, ids) == [i \in 1..Len(ids) |-> get_unsafe(tree, ids[i]).data]

RECURSIVE PreOf(_, _, _)
RECURSIVE PreOfAll(_, _, _)
\* pre(n) = n followed by pre(c) for each child c of n in stored order, to depth k
PreOf(tree, n, k) ==
    IF k = 0 \/ ~Occupied(tree, n) THEN <<n>>
    ELSE <<n>> \o PreOfAll(tree, get_unsafe(tree, n).children, k - 1)

PreOfAll(tree, cs, k) ==
    IF cs = <<>> THEN <<>>
    ELSE PreOf(tree, Head(cs), k) \o PreOfAll(tree, Tail(cs), k)

\* in a sequence of NodeIds no node stands behind one of its descendants
AncestorsFirst(tree, ids) ==
    \A i \in 1..Len(ids) : \A j \in (i + 1)..Len(ids) : ids[i] \notin Subtree(tree, ids[j])

\* C27: a pre-order traversal from a valid node ends and yields the nodes of the
\* start node's subtree, each once, in the order pre(n) = n, then pre(c) for each
\* child c of n in stored order, every node before its descendants; on the
\* example tree it yields 0, 1, 3, 4, 2.
C27_PreOrder ==
    /\ DataOf(ExampleTree, traverse_pre_order(ExampleTree, ExampleTree.root).ids)
          = <<0, 1, 3, 4, 2>>
    /\ \A t \in Operated : Running(trees[t]) =>
          \A start \in ValidIds(trees[t]) :
              LET r == traverse_pre_order(trees[t], start)
              IN  /\ r.st = "Ok"
                  /\ r.ids = PreOf(trees[t], start, Len(trees[t].nodes))
                  /\ Range(r.ids) = Subtree(trees[t], start)
                  /\ Len(r.ids) = Cardinality(Subtree(trees[t], start))
                  /\ AncestorsFirst(trees[t], r.ids)

RECURSIVE PostOf(_, _, _)
RECURSIVE PostOfAll(_, _, _)
\* post(n) = post(c) for each child c of n in stored order, then n, to depth k
PostOf(tree, n, k) ==
    IF k = 0 \/ ~Occupied(tree, n) THEN <<n>>
    ELSE PostOfAll(tree, get_unsafe(tree, n).children, k - 1) \o <<n>>

PostOfAll(tree, cs, k) ==
    IF cs = <<>> THEN <<>>
    ELSE PostOf(tree, Head(cs), k) \o PostOfAll(tree, Tail(cs), k)

\* C28: a post-order traversal from a valid node ends and yields the nodes of
\* the start node's subtree, each once, in the order post(n) = post(c) for each
\* child c of n in stored order, then n: every node after its descendants, the
\* start node last; on the example tree it yields 3, 4, 1, 2, 0.
C28_PostOrder ==
    /\ DataOf(ExampleTree, traverse_post_order(ExampleTree, ExampleTree.root).ids)
          = <<3, 4, 1, 2, 0>>
    /\ \A t \in Operated : Running(trees[t]) =>
          \A start \in ValidIds(trees[t]) :
              LET r == traverse_post_order(trees[t], start)
              IN  /\ r.st = "Ok"
                  /\ r.ids = PostOf(trees[t], start, Len(trees[t].nodes))
                  /\ Range(r.ids) = Subtree(trees[t], start)
                  /\ Len(r.ids) = Cardinality(Subtree(trees[t], start))
                  /\ AncestorsFirst(trees[t], Reverse(r.ids))
                  /\ r.ids[Len(r.ids)] = start

RECURSIVE ChildrenOfAll(_, _)
\* the children of the nodes of a tier, in the order of the tier and then in
\* stored order
ChildrenOfAll(tree, tier) ==
    IF tier = <<>> THEN <<>>
    ELSE (IF Occupied(tree, Head(tier)) THEN get_unsafe(tree, Head(tier)).children
          ELSE <<>>) \o ChildrenOfAll(tree, Tail(tier))

RECURSIVE Tiers(_, _, _)
\* a tier, then the tiers below it, to depth k
Tiers(tree, tier, k) ==
    IF k = 0 \/ tier = <<>> THEN tier
    ELSE tier \o Tiers(tree, ChildrenOfAll(tree, tier), k - 1)

RECURSIVE Depth(_, _, _, _)
\* the number of parent links from x up to start, -1 when start is not met in k steps
Depth(tree, start, x, k) ==
    IF x = start THEN 0
    ELSE IF k = 0 \/ ~Occupied(tree, x) \/ get_unsafe(tree, x).parent = NoId THEN -1
    ELSE LET d == Depth(tree, start, get_unsafe(tree, x).parent, k - 1)
         IN  IF d < 0 THEN -1 ELSE d + 1

\* C29: a level-order traversal from a valid node ends and yields the nodes of
\* the start node's subtree, each once, breadth first: the start node first,
\* depths never decreasing, the nodes of one depth in the order of their parents
\* and then in stored order; on the example tree it yields 0, 1, 2, 3, 4.
C29_LevelOrder ==
    /\ DataOf(ExampleTree, traverse_level_order(ExampleTree, ExampleTree.root).ids)
          = <<0, 1, 2, 3, 4>>
    /\ \A t \in Operated : Running(trees[t]) =>
          \A start \in ValidIds(trees[t]) :
              LET r == traverse_level_order(trees[t], start)
                  n == Len(trees[t].nodes)
              IN  /\ r.st = "Ok"
                  /\ r.ids = Tiers(trees[t], <<start>>, n)
                  /\ Range(r.ids) = Subtree(trees[t], start)
                  /\ Len(r.ids) = Cardinality(Subtree(trees[t], start))
                  /\ r.ids[1] = start
                  /\ \A i \in 1..Len(r.ids) : \A j \in i..Len(r.ids) :
                        /\ Depth(trees[t], start, r.ids[i], n) >= 0
                        /\ Depth(trees[t], start, r.ids[i], n)
                              <= Depth(trees[t], start, r.ids[j], n)

\* Ancestors::next (nodes = TRUE) and AncestorIds::next (nodes = FALSE) on the
\* iterator's field node_id: [st, node_id, item]; Ancestors reads the parent's
\* slot, AncestorIds only the current one
Ancestors_next(tree, node_id, nodes) ==
    IF node_id = NoId THEN [st |-> "None", node_id |-> NoId, item |-> NoId]
    ELSE IF ~Occupied(tree, node_id) THEN [st |-> "Panic", node_id |-> node_id, item |-> NoId]
    ELSE LET parent_id == get_unsafe(tree, node_id).parent
         IN  IF parent_id = NoId THEN [st |-> "None", node_id |-> NoId, item |-> NoId]
             ELSE IF nodes /\ ~Occupied(tree, parent_id)
             THEN [st |-> "Panic", node_id |-> node_id, item |-> NoId]
             ELSE [st |-> "Some", node_id |-> parent_id, item |-> parent_id]

RECURSIVE drain_ancestors(_, _, _, _)
\* next() until it returns None: [st, ids, node_id]; the iterator has no state
\* but node_id, so it never ends once node_id takes a value it had before
drain_ancestors(tree, node_id, nodes, seen) ==
    LET s == Ancestors_next(tree, node_id, nodes)
    IN  IF s.st = "None" THEN [st |-> "Ok", ids |-> <<>>, node_id |-> s.node_id]
        ELSE IF s.st = "Panic" THEN [st |-> "Panic", ids |-> <<>>, node_id |-> s.node_id]
        ELSE IF s.node_id \in seen
        THEN [st |-> "Diverge", ids |-> <<>>, node_id |-> s.node_id]
        ELSE LET rest == drain_ancestors(tree, s.node_id, nodes, seen \cup {s.node_id})
             IN  [rest EXCEPT !.ids = <<s.item>> \o @]

RECURSIVE ParentChain(_, _, _)
\* the parent of x, the parent's parent and so on to a parentless node, k at most
ParentChain(tree, x, k) ==
    IF k = 0 \/ ~Occupied(tree, x) \/ get_unsafe(tree, x).parent = NoId THEN <<>>
    ELSE <<get_unsafe(tree, x).parent>> \o ParentChain(tree, get_unsafe(tree, x).parent, k - 1)

\* C30: the ancestors iterator and the ancestor-ids iterator started at a valid
\* node end and yield the node's parent, the parent's parent and so on up to a
\* parentless node, never the start node; for the root they yield nothing; once
\* ended, every further next() yields nothing.
C30_Ancestors ==
    \A t \in Operated : Running(trees[t]) =>
        \A start \in ValidIds(trees[t]) : \A nodes \in BOOLEAN :
            LET r == drain_ancestors(trees[t], start, nodes, {start})
                again == Ancestors_next(trees[t], r.node_id, nodes)
            IN  /\ r.st = "Ok"
                /\ r.ids = ParentChain(trees[t], start, Len(trees[t].nodes))
                /\ start \notin Range(r.ids)
                /\ (r.ids # <<>>) => get_unsafe(trees[t], r.ids[Len(r.ids)]).parent = NoId
                /\ start = trees[t].root => r.ids = <<>>
                /\ again.st = "None" /\ again.node_id = r.node_id

(***************************************************************************)
(* Termination of the iterators and of the calls                           *)
(***************************************************************************)
RECURSIVE children_drain(_, _, _)
\* Children::next (nodes = TRUE) and ChildrenIds::next (nodes = FALSE) until the
\* slice iterator over the children list is exhausted: [st, ids]; Children reads
\* the slot of every child it yields
children_drain(tree, child_ids, nodes) ==
    IF child_ids = <<>> THEN [st |-> "Ok", ids |-> <<>>]
    ELSE IF nodes /\ ~Occupied(tree, Head(child_ids)) THEN [st |-> "Panic", ids |-> <<>>]
    ELSE LET rest == children_drain(tree, Tail(child_ids), nodes)
         IN  [rest EXCEPT !.ids = <<Head(child_ids)>> \o @]

\* Children::new / ChildrenIds::new on a valid node, run to the end
traverse_children(tree, node_id, nodes) ==
    children_drain(tree, get_unsafe(tree, node_id).children, nodes)

\* the alive nodes met along parent links from start, start itself left out
\* unless a parent link leads back to it
Above(tree, start) == Range(ParentChain(tree, start, Len(tree.nodes))) \cap AliveIds(tree)

\* the alive nodes met along children lists from start, start among them
Below(tree, start) == Subtree(tree, start) \cap AliveIds(tree)

\* C31: on every reachable tree each iterator started at a valid NodeId comes to
\* its end, and has by then yielded no more items than there are alive nodes
\* reachable from the start (along parent links for the ancestors, along
\* children lists for the others).
C31_IteratorsFinite ==
    \A t \in Operated : Running(trees[t]) =>
        \A start \in ValidIds(trees[t]) :
            LET tree == trees[t]
                below == Cardinality(Below(tree, start))
            IN  /\ \A nodes \in BOOLEAN :
                      LET a == drain_ancestors(tree, start, nodes, {start})
                          c == traverse_children(tree, start, nodes)
                      IN  /\ a.st # "Diverge"
                          /\ Len(a.ids) <= Cardinality(Above(tree, start))
                          /\ c.st # "Diverge"
                          /\ Len(c.ids) <= below
                /\ traverse_pre_order(tree, start).st # "Diverge"
                /\ Len(traverse_pre_order(tree, start).ids) <= below
                /\ traverse_post_order(tree, start).st # "Diverge"
                /\ Len(traverse_post_order(tree, start).ids) <= below
                /\ traverse_level_order(tree, start).st # "Diverge"
                /\ Len(traverse_level_order(tree, start).ids) <= below

\* C32: on every reachable tree every call returns: the walk along parent links
\* of move_node_to_parent and swap_sub_tree (find_subtree_root_between_ids) and
\* the descent of remove_node_drop_children end (the walk meets no NodeId twice,
\* so it takes no more steps than there are alive nodes), and so does every
\* other call, whatever valid NodeIds it is given.
C32_CallsTerminate ==
    \A t \in Operated : Running(trees[t]) =>
        LET tree == trees[t]
        IN  /\ result # "Diverge"
            /\ \A d \in Data : set_root(tree, d).res # "Diverge"
            /\ \A h \in ValidIds(tree) :
                  /\ remove_node_drop_children(tree, h).res # "Diverge"
                  /\ remove_node_lift_children(tree, h).res # "Diverge"
                  /\ remove_node_orphan_children(tree, h).res # "Diverge"
                  /\ \A d \in Data : insert_with_parent(tree, d, h).res # "Diverge"
                  /\ \A kind \in SortKinds : sort_children(tree, h, kind).res # "Diverge"
                  /\ \A g \in ValidIds(tree) :
                        /\ find_subtree_root_between_ids(tree, h, g).st # "Diverge"
                        /\ move_node_to_parent(tree, h, g).res # "Diverge"
                        /\ swap_sub_tree(tree, h, g).res # "Diverge"

(***************************************************************************)
(* The root, validation, and the slots                                     *)
(***************************************************************************)
\* C33: in every reachable state with a root, the root names an alive node whose
\* parent link is absent.
C33_RootHasNoParent ==
    \A t \in TreeIds : (Running(trees[t]) /\ trees[t].root # NoId) =>
        /\ Occupied(trees[t], trees[t].root)
        /\ get_unsafe(trees[t], trees[t].root).parent = NoId

\* what validation owes a NodeId: the tree identity decides first, then the slot
ErrorOf(tree, h) ==
    IF h.tree_id # tree.id THEN "InvalidNodeIdForTree"
    ELSE IF ~Occupied(tree, h) THEN "NodeIdNoLongerValid"
    ELSE "Ok"

\* C34: a NodeId of another tree is reported InvalidNodeIdForTree whatever its
\* index (out of bounds, vacated or occupied in this tree), by validation and by
\* every call; move_node_to_parent and swap_sub_tree given two NodeIds return the
\* error of the first one that is invalid.
C34_ValidationOrder ==
    AllRunning =>
        \A t \in Operated :
            LET tree == trees[t]
            IN  /\ \A f \in {k \in Known : k.tree_id # t} :
                      /\ validate_node_id(tree, f) = "InvalidNodeIdForTree"
                      /\ is_valid_node_id(tree, f) = "InvalidNodeIdForTree"
                      /\ EveryCallEndsWith(tree, f, "InvalidNodeIdForTree")
                /\ \A h \in Known : \A g \in Known :
                      LET first == ErrorOf(tree, h)
                          second == ErrorOf(tree, g)
                          owed == IF first # "Ok" THEN first ELSE second
                      IN  owed # "Ok" =>
                            /\ move_node_to_parent(tree, h, g).res = owed
                            /\ move_node_to_parent(tree, h, g).tree = tree
                            /\ swap_sub_tree(tree, h, g).res = owed
                            /\ swap_sub_tree(tree, h, g).tree = tree

\* a move was just refused with InvalidNodeIdForTree by a tree in which no node
\* is alive and the slot at the other tree's index is vacated: the NodeId given
\* first was the other tree's, the one given second was invalid as well
C34_Witness ==
    /\ AllRunning
    /\ op = "move_node_to_parent" /\ result = "InvalidNodeIdForTree"
    /\ AliveIds(trees[1]) = {}
    /\ Len(trees[1].nodes) > 0
    /\ stale # {}

\* the outcome r of an insertion into tree took the slot the claim names: with
\* free NodeIds the one pushed last, its slot filled and the storage as long as
\* before; with none a new slot at the end
ReusesLastFreed(tree, r, d) ==
    LET n == Len(tree.free_ids)
    IN  /\ r.res = "Ok"
        /\ Occupied(r.tree, r.id) /\ get_unsafe(r.tree, r.id).data = d
        /\ IF n > 0
           THEN /\ r.id = tree.free_ids[n]
                /\ ~Occupied(tree, r.id)
                /\ Len(r.tree.nodes) = Len(tree.nodes)
                /\ r.tree.free_ids = SubSeq(tree.free_ids, 1, n - 1)
           ELSE /\ r.id = NodeId(tree.id, Len(tree.nodes))
                /\ Len(r.tree.nodes) = Len(tree.nodes) + 1
                /\ r.tree.free_ids = <<>>

\* the outcome r of a removal of h from tree, when it succeeded, pushed the
\* NodeIds it vacated on top of the free NodeIds, h last
PushesFreed(tree, r, h) ==
    r.res = "Ok" =>
        LET n == Len(tree.free_ids)
            m == Len(r.tree.free_ids)
        IN  /\ m > n
            /\ SubSeq(r.tree.free_ids, 1, n) = tree.free_ids
            /\ r.tree.free_ids[m] = h
            /\ Len(r.tree.nodes) = Len(tree.nodes)

\* C35: an insertion into a tree with free NodeIds returns the NodeId removed
\* last among them and fills its slot, the storage keeping its length; with no
\* free NodeId it appends a slot and returns the former length as index; a
\* removal puts the removed NodeId on top of the free NodeIds; and no call makes
\* the storage shorter.
C35_SlotReuseIsLifo ==
    /\ [](\A t \in Operated : Running(trees[t]) =>
            LET tree == trees[t]
            IN  /\ \A d \in Data : ReusesLastFreed(tree, set_root(tree, d), d)
                /\ \A d \in Data : \A p \in ValidIds(tree) :
                      ReusesLastFreed(tree, insert_with_parent(tree, d, p), d)
                /\ \A h \in ValidIds(tree) :
                      /\ PushesFreed(tree, remove_node_lift_children(tree, h), h)
                      /\ PushesFreed(tree, remove_node_orphan_children(tree, h), h)
                      /\ PushesFreed(tree, remove_node_drop_children(tree, h), h)
                /\ (last_removed # NoId /\ last_removed.tree_id = t) =>
                      /\ Len(tree.free_ids) > 0
                      /\ tree.free_ids[Len(tree.free_ids)] = last_removed)
    /\ [][\A t \in TreeIds : Len(trees'[t].nodes) >= Len(trees[t].nodes)]_vars

\* an insertion just took one of two free NodeIds: three slots, one still free
C35_Witness ==
    /\ AllRunning
    /\ op \in {"set_root", "insert_with_parent"} /\ result = "Ok"
    /\ Len(trees[1].nodes) = 3
    /\ Len(trees[1].free_ids) = 1
    /\ Cardinality(stale) = 1

\* the NodeIds of the vacated slots of a tree
VacantIds(tree) ==
    {NodeId(tree.id, i) : i \in {j \in 0..(Len(tree.nodes) - 1) : ~tree.nodes[j + 1].some}}

\* C36: in every reachable state the free NodeIds are exactly the NodeIds of the
\* vacated slots, each once and each of this tree, so the storage is as long as
\* the alive nodes and the free NodeIds together; and an insertion fills a slot
\* that was vacated or new, never one that holds a node.
C36_FreeListConsistent ==
    \A t \in TreeIds : Running(trees[t]) =>
        LET tree == trees[t]
            free == tree.free_ids
        IN  /\ Range(free) = VacantIds(tree)
            /\ \A i \in 1..Len(free) : \A j \in 1..Len(free) : i # j => free[i] # free[j]
            /\ \A i \in 1..Len(free) : free[i].tree_id = tree.id
            /\ Len(tree.nodes) = Cardinality(AliveIds(tree)) + Len(free)
            /\ \A d \in Data :
                  LET r == set_root(tree, d)
                  IN  /\ ~Occupied(tree, r.id)
                      /\ \A x \in AliveIds(tree) :
                            /\ Occupied(r.tree, x)
                            /\ get_unsafe(r.tree, x).data = get_unsafe(tree, x).data
            /\ \A d \in Data : \A p \in ValidIds(tree) :
                  LET r == insert_with_parent(tree, d, p)
                  IN  /\ ~Occupied(tree, r.id)
                      /\ \A x \in AliveIds(tree) :
                            /\ Occupied(r.tree, x)
                            /\ get_unsafe(r.tree, x).data = get_unsafe(tree, x).data

\* a node was just inserted into a slot vacated earlier while another slot is
\* still vacated and a third holds a node
C36_Witness ==
    /\ AllRunning
    /\ op = "insert_with_parent" /\ result = "Ok"
    /\ Len(trees[1].nodes) = 3
    /\ Len(trees[1].free_ids) = 1
    /\ Cardinality(AliveIds(trees[1])) = 2
    /\ Cardinality(issued) = 2

\* every NodeId a tree has returned from an insertion: those not removed since
\* and those removed
EverIssued == {e.id : e \in issued} \cup stale

\* C37: every NodeId a tree has ever returned, and every NodeId a tree stores,
\* has in every later state an index below that tree's storage length, so
\* validation of a NodeId of this tree never takes the out-of-bounds panic: it
\* finds the NodeId valid or reports NodeIdNoLongerValid.
C37_NoOutOfBounds ==
    /\ \A h \in EverIssued :
          /\ h.index < Len(trees[h.tree_id].nodes)
          /\ is_valid_node_id(trees[h.tree_id], h) \in {"Ok", "NodeIdNoLongerValid"}
          /\ validate_node_id(trees[h.tree_id], h) \in {"Ok", "NodeIdNoLongerValid"}
          /\ is_valid_node_id(trees[h.tree_id], h) = "NodeIdNoLongerValid" <=> h \in stale
    /\ \A t \in TreeIds : \A h \in {k \in StoredIds(trees[t]) : k.tree_id = t} :
          h.index < Len(trees[t].nodes)

\* a call was just refused with NodeIdNoLongerValid while the tree has issued
\* three NodeIds, two of them removed and one of the two returned again
C37_Witness ==
    /\ AllRunning
    /\ result = "NodeIdNoLongerValid"
    /\ Cardinality(EverIssued) = 3
    /\ Cardinality(stale) = 1
    /\ Cardinality(AliveIds(trees[1])) = 2

(***************************************************************************)
(* Swapping twice, and the children lists                                  *)
(***************************************************************************)
\* neither of two nodes is met along parent links from the other
Unrelated(tree, A, B) ==
    /\ A \notin Range(ParentChain(tree, B, Len(tree.nodes)))
    /\ B \notin Range(ParentChain(tree, A, Len(tree.nodes)))

\* C38: for valid A and B, neither an ancestor of the other, swap_sub_tree(A, B)
\* succeeds, a second swap_sub_tree(A, B) gives back the tree as it was before
\* the first, and swap_sub_tree(B, A) gives the same tree as swap_sub_tree(A, B).
C38_SwapInvolution ==
    \A t \in Operated : Running(trees[t]) =>
        \A A \in ValidIds(trees[t]) : \A B \in ValidIds(trees[t]) :
            Unrelated(trees[t], A, B) =>
                LET before == trees[t]
                    once == swap_sub_tree(before, A, B)
                    twice == swap_sub_tree(once.tree, A, B)
                    other == swap_sub_tree(before, B, A)
                IN  /\ once.res = "Ok"
                    /\ twice.res = "Ok"
                    /\ twice.tree = before
                    /\ other.res = "Ok"
                    /\ other.tree = once.tree

\* the places <<y, j>> at which the children lists of the alive nodes name x
Entries(tree, x) ==
    UNION {{<<y, j>> : j \in {k \in 1..Len(get_unsafe(tree, y).children) :
                                get_unsafe(tree, y).children[k] = x}} :
           y \in AliveIds(tree)}

\* no NodeId is named twice by the children lists, and an alive node with a
\* parent link is named once
EachChildOnce(tree) ==
    /\ \A x \in StoredIds(tree) \cup AliveIds(tree) : Cardinality(Entries(tree, x)) <= 1
    /\ \A x \in AliveIds(tree) :
          get_unsafe(tree, x).parent # NoId => Cardinality(Entries(tree, x)) = 1

\* the outcome r of a call on a tree neither names a NodeId twice nor drops the
\* entry of a node that keeps a parent
KeepsEntries(r) == r.res = "Ok" => EachChildOnce(r.tree)

\* C39: in every reachable state no NodeId occurs twice in one children list or
\* in the children lists of two nodes, and move_node_to_parent, swap_sub_tree,
\* remove_node_lift_children and the sorts leave it so: they neither duplicate
\* a child entry nor drop the entry of a node that still has a parent.
C39_EachChildOnce ==
    \A t \in Operated : Running(trees[t]) =>
        LET tree == trees[t]
        IN  /\ EachChildOnce(tree)
            /\ \A h \in ValidIds(tree) :
                  /\ KeepsEntries(remove_node_lift_children(tree, h))
                  /\ \A kind \in SortKinds : KeepsEntries(sort_children(tree, h, kind))
                  /\ \A g \in ValidIds(tree) :
                        /\ KeepsEntries(move_node_to_parent(tree, h, g))
                        /\ KeepsEntries(swap_sub_tree(tree, h, g))

(***************************************************************************)
(* OptTree (src/src/tree/opt_tree.rs): a CoreTree of OptNodes, which keep  *)
(* their children as first_child / last_child and prev_sibling /           *)
(* next_sibling links.  Of its operations that change the tree only insert *)
(* is written; the runs of SpecOpt are sequences of insertions.            *)
(***************************************************************************)
\* the nodes an OptTree may grow to
OptSlots == 4

\* OptNode::new(data): no links
OptNode_new(d) ==
    [some |-> TRUE, data |-> d, parent |-> NoId, prev_sibling |-> NoId,
     next_sibling |-> NoId, first_child |-> NoId, last_child |-> NoId]

\* a vacated slot of CoreTree.nodes
OptVacant == [OptNode_new(0) EXCEPT !.some = FALSE]

\* CoreTree::new: a root given to the builder takes slot 0
CoreTree_new(t, root) ==
    [id |-> t,
     root |-> IF root.some THEN NodeId(t, 0) ELSE NoId,
     nodes |-> IF root.some THEN <<root>> ELSE <<>>,
     free_ids |-> <<>>,
     fatal |-> "None"]

\* OptTreeBuilder::build
OptTreeBuilder_build(t, root) == CoreTree_new(t, root)

\* CoreTree::insert: [tree, id]
CoreTree_insert(tree, new_node) ==
    IF Len(tree.free_ids) > 0
    THEN LET new_node_id == tree.free_ids[Len(tree.free_ids)]
         IN  [tree |-> [tree EXCEPT
                          !.free_ids = SubSeq(@, 1, Len(@) - 1),
                          !.nodes = swap_remove(Append(@, new_node), new_node_id.index)],
              id |-> new_node_id]
    ELSE [tree |-> [tree EXCEPT !.nodes = Append(@, new_node)],
          id |-> NodeId(tree.id, Len(tree.nodes))]

\* CoreTree::set_root: insert, then root = the new NodeId
CoreTree_set_root(tree, new_root) ==
    LET ins == CoreTree_insert(tree, new_root)
    IN  [tree |-> [ins.tree EXCEPT !.root = ins.id], id |-> ins.id]

\* OptTree::get_unchecked: expect() on the slot
get_unchecked(tree, id) == tree.nodes[id.index + 1]

\* OptTree::get_unchecked_mut followed by one setter of the node
get_unchecked_mut(tree, id, field, value) ==
    IF ~Running(tree) THEN tree
    ELSE IF ~Occupied(tree, id) THEN Abort(tree, "Panic")
    ELSE [tree EXCEPT !.nodes[id.index + 1][field] = value]

\* insert_under_node that links the new node behind the last child and forgets
\* the new node's prev_sibling
OptTree_insert_under_node_no_prev(tree, node, parent_id) ==
    LET ins == CoreTree_insert(tree, [node EXCEPT !.parent = parent_id])
        new_id == ins.id
        parent == get_unchecked(ins.tree, parent_id)
    IN  IF ~Occupied(ins.tree, parent_id) THEN Done(Abort(ins.tree, "Panic"), NoId, Vacant)
        ELSE IF parent.first_child # NoId /\ parent.last_child # NoId
        THEN LET t1 == get_unchecked_mut(ins.tree, parent_id, "last_child", new_id)
             IN  Done(get_unchecked_mut(t1, parent.last_child, "next_sibling", new_id),
                      new_id, Vacant)
        ELSE IF parent.first_child # NoId \/ parent.last_child # NoId
        THEN Done(Abort(ins.tree, "Panic"), NoId, Vacant)
        ELSE LET t1 == get_unchecked_mut(ins.tree, parent_id, "first_child", new_id)
             IN  Done(get_unchecked_mut(t1, parent_id, "last_child", new_id), new_id, Vacant)

\* OptTree::insert_under_node: the new node gets its parent link and a slot, and
\* becomes the parent's last child
OptTree_insert_under_node(tree, node, parent_id) ==
    LET ins == CoreTree_insert(tree, [node EXCEPT !.parent = parent_id])
        new_id == ins.id
        parent == get_unchecked(ins.tree, parent_id)
    IN  IF ~Occupied(ins.tree, parent_id) THEN Done(Abort(ins.tree, "Panic"), NoId, Vacant)
        ELSE IF parent.first_child # NoId /\ parent.last_child # NoId
        THEN LET last_id == parent.last_child
                 t1 == get_unchecked_mut(ins.tree, parent_id, "last_child", new_id)
                 t2 == get_unchecked_mut(t1, new_id, "prev_sibling", last_id)
             IN  Done(get_unchecked_mut(t2, last_id, "next_sibling", new_id), new_id, Vacant)
        ELSE IF parent.first_child # NoId \/ parent.last_child # NoId
        THEN \* "Found an OptNode in an invalid state."
             Done(Abort(ins.tree, "Panic"), NoId, Vacant)
        ELSE LET t1 == get_unchecked_mut(ins.tree, parent_id, "first_child", new_id)
             IN  Done(get_unchecked_mut(t1, parent_id, "last_child", new_id), new_id, Vacant)

\* OptTree::set_root: the current root becomes the only child of the new root
OptTree_set_root(tree, new_root) ==
    LET current_root == tree.root
        ins == CoreTree_set_root(tree, new_root)
        new_root_id == ins.id
    IN  IF current_root = NoId THEN Done(ins.tree, new_root_id, Vacant)
        ELSE LET t1 == get_unchecked_mut(ins.tree, current_root, "parent", new_root_id)
                 t2 == get_unchecked_mut(t1, new_root_id, "first_child", current_root)
             IN  Done(get_unchecked_mut(t2, new_root_id, "last_child", current_root),
                      new_root_id, Vacant)

\* OptTree::insert: behavior is NoId for AsRoot, the parent's NodeId for UnderNode
OptTree_insert(tree, node, behavior) ==
    IF behavior = NoId THEN OptTree_set_root(tree, node)
    ELSE LET v == validate_node_id(tree, behavior)
         IN  IF v # "Ok" THEN Rejected(tree, v)
             ELSE OptTree_insert_under_node(tree, node, behavior)

\* an OptTree built with or without a root, and a second one that lends its
\* root's NodeId; issued is here the sequence of the insertions that succeeded:
\* the NodeId returned, the payload, the parent asked for (NoId for AsRoot) and
\* the root at the time of the call
InitOpt ==
    /\ \E root \in {OptVacant} \cup {OptNode_new(d) : d \in Data} :
          trees = [t \in TreeIds |->
                      IF t \in Operated THEN OptTreeBuilder_build(t, root)
                      ELSE OptTreeBuilder_build(t, OptNode_new(0))]
    /\ calls = 0
    /\ op = "new"
    /\ branch = "none"
    /\ result = "Ok"
    /\ issued = <<>>
    /\ stale = {}
    /\ last_removed = NoId
    /\ returned = Vacant

\* tree.insert(OptNode::new(d), behavior) on tree t
OptInserted(t, d, behavior, name) ==
    LET r == OptTree_insert(trees[t], OptNode_new(d), behavior)
    IN  /\ Call
        /\ Len(trees[t].nodes) < OptSlots \/ r.res \in NodeIdErrors
        /\ trees' = [trees EXCEPT ![t] = r.tree]
        /\ op' = name
        /\ result' = r.res
        /\ issued' = IF r.res = "Ok"
                     THEN Append(issued, [id |-> r.id, data |-> d, under |-> behavior,
                                          old_root |-> trees[t].root])
                     ELSE issued
        /\ UNCHANGED <<branch, stale, last_removed, returned>>

OptInsertAsRoot(t, d) == OptInserted(t, d, NoId, "insert_as_root")

OptInsertUnderNode(t, d, parent_id) == OptInserted(t, d, parent_id, "insert_under_node")

NextOpt ==
    \E t \in Operated :
        \/ \E d \in Data : OptInsertAsRoot(t, d)
        \/ \E d \in Data, h \in Known : OptInsertUnderNode(t, d, h)

SpecOpt == InitOpt /\ [][NextOpt]_vars

RECURSIVE SiblingChain(_, _, _)
\* the nodes met from x along next_sibling links, x first, k links at most
SiblingChain(tree, x, k) ==
    IF x = NoId \/ ~Occupied(tree, x) THEN <<>>
    ELSE IF k = 0 THEN <<x>>
    ELSE <<x>> \o SiblingChain(tree, get_unchecked(tree, x).next_sibling, k - 1)

\* the NodeIds of the successful insertions that asked for parent n, in the
\* order of the calls
InsertedUnderNode(n) ==
    LET under == SelectSeq(issued, LAMBDA e : e.under = n)
    IN  [i \in 1..Len(under) |-> under[i].id]

\* the children n was given, in the order it was given them: the root n was put
\* above when it was inserted as root, then the nodes inserted under n
ChildrenInOrder(n) ==
    LET as_root == SelectSeq(issued, LAMBDA e : e.id = n /\ e.under = NoId /\ e.old_root # NoId)
    IN  (IF as_root = <<>> THEN <<>> ELSE <<as_root[1].old_root>>) \o InsertedUnderNode(n)

\* C40: after any sequence of OptTree insertions, for every node: first_child
\* and last_child are both absent or both present; the next_sibling links from
\* first_child visit the node's children in the order they were inserted and end
\* at last_child; prev_sibling and next_sibling are inverse of each other;
\* every child's parent link names the node; the first child has no
\* prev_sibling and the last child no next_sibling.
C40_OptTreeSiblingLinks ==
    \A t \in Operated :
        LET tree == trees[t]
            n == Len(tree.nodes)
        IN  /\ Running(tree)
            /\ \A x \in AliveIds(tree) :
                  LET node == get_unchecked(tree, x)
                      chain == SiblingChain(tree, node.first_child, n)
                  IN  /\ (node.first_child = NoId) <=> (node.last_child = NoId)
                      /\ chain = ChildrenInOrder(x)
                      /\ chain # <<>> =>
                            /\ chain[Len(chain)] = node.last_child
                            /\ get_unchecked(tree, chain[1]).prev_sibling = NoId
                            /\ get_unchecked(tree, chain[Len(chain)]).next_sibling = NoId
                      /\ \A i \in 1..Len(chain) : get_unchecked(tree, chain[i]).parent = x
                      /\ node.next_sibling # NoId =>
                            /\ Occupied(tree, node.next_sibling)
                            /\ get_unchecked(tree, node.next_sibling).prev_sibling = x
                      /\ node.prev_sibling # NoId =>
                            /\ Occupied(tree, node.prev_sibling)
                            /\ get_unchecked(tree, node.prev_sibling).next_sibling = x

\* a node was just inserted as root above a root that has two children
C40_Witness ==
    /\ op = "insert_as_root" /\ result = "Ok"
    /\ Len(trees[1].nodes) = 4
    /\ LET root == get_unchecked(trees[1], trees[1].root)
       IN  /\ root.first_child # NoId
           /\ Len(SiblingChain(trees[1], get_unchecked(trees[1], root.first_child).first_child,
                               OptSlots)) = 2

====
